---- MODULE Spec2Model ----
(***************************************************************************)
(* A model of the coding-assistant chat completion client                  *)
(* (src/src/clients/chat_completion.rs, src/src/clients/providers.rs).     *)
(*                                                                         *)
(* One ChatCompletionClient session is the record `self`; its operations   *)
(* are the actions below.  send_message is an async fn with one network    *)
(* await: it is modelled as the step up to `req.send().await` followed by  *)
(* the step that resumes it with the outcome of the exchange.              *)
(***************************************************************************)
EXTENDS Integers, Sequences, FiniteSets, TLC

(* ------------------------------------------------------------------ *)
(* Bounds of the exploration                                           *)
(* ------------------------------------------------------------------ *)

\* send_message calls explored per session
MaxSends == 2

\* configuration setter calls explored per session
MaxSets == 2

(* ------------------------------------------------------------------ *)
(* Option and Result                                                   *)
(* ------------------------------------------------------------------ *)

None == <<"None">>

Some(x) == <<"Some", x>>

\* Option::unwrap of a Some
unwrap(o) == o[2]

Ok(v) == <<"Ok", v>>

Err(e) == <<"Err", e>>

(* ------------------------------------------------------------------ *)
(* providers.rs                                                        *)
(* ------------------------------------------------------------------ *)

Provider == {"Anthropic", "OpenAI", "Mistral", "Google"}

Model ==
    {"GPT4o", "GPT4Turbo", "GPT3Turbo", "Claude3_5Sonnet", "Claude3Opus",
     "Claude3Sonnet", "Claude3Haiku", "Codestral", "GeminiFlash", "GeminiPro"}

\* #[serde(rename = ...)]: the string a Model serializes to
Serialize_Model(m) ==
    CASE m = "GPT4o"           -> "gpt-4o"
      [] m = "GPT4Turbo"       -> "gpt-4-turbo-preview"
      [] m = "GPT3Turbo"       -> "gpt-3-turbo"
      [] m = "Claude3_5Sonnet" -> "claude-3-5-sonnet-20240620"
      [] m = "Claude3Opus"     -> "claude-3-opus-20240229"
      [] m = "Claude3Sonnet"   -> "claude-3-sonnet-20240229"
      [] m = "Claude3Haiku"    -> "claude-3-haiku-20240307"
      [] m = "Codestral"       -> "codestral-latest"
      [] m = "GeminiFlash"     -> "gemini-1.5-flash-latest"
      [] m = "GeminiPro"       -> "gemini-1.5-pro-latest"

\* impl fmt::Display for Model: what format!("{}", model) writes
Display_Model(m) ==
    CASE m = "GPT4o"           -> "GPT-4o"
      [] m = "GPT4Turbo"       -> "GPT-4-Turbo"
      [] m = "GPT3Turbo"       -> "GPT-3-Turbo"
      [] m = "Claude3Opus"     -> "Claude 3 Opus"
      [] m = "Claude3Sonnet"   -> "Claude 3 Sonnet"
      [] m = "Claude3Haiku"    -> "Claude 3 Haiku"
      [] m = "Codestral"       -> "Codestral"
      [] m = "Claude3_5Sonnet" -> "Claude 3.5 Sonnet"
      [] m = "GeminiFlash"     -> "Gemini 1.5 Flash"
      [] m = "GeminiPro"       -> "Gemini 1.5 Pro"

(* ------------------------------------------------------------------ *)
(* Canonical messages                                                  *)
(* ------------------------------------------------------------------ *)

Role == {"System", "User", "Assistant"}

\* the system prompt the session is constructed with
SystemPrompt == "You are a helpful coding assistant."

\* message texts a caller may pass
Contents == {SystemPrompt, "hi"}

Message == [role : Role, content : Contents]

\* the message ChatCompletionClient::new and get_message_history build
SystemMessage(system_prompt) == [role |-> "System", content |-> system_prompt]

(* ------------------------------------------------------------------ *)
(* The process environment the credential is read from                 *)
(* ------------------------------------------------------------------ *)

EnvKey(provider) ==
    CASE provider = "Anthropic" -> "CLAUDE_API_KEY"
      [] provider = "OpenAI"    -> "OPENAI_API_KEY"
      [] provider = "Mistral"   -> "MISTRAL_API_KEY"
      [] provider = "Google"    -> "GOOGLE_API_KEY"

EnvKeys == {EnvKey(p) : p \in Provider}

\* an environment holding every provider's credential
Secret(k) ==
    CASE k = "CLAUDE_API_KEY"  -> "sk-ant"
      [] k = "OPENAI_API_KEY"  -> "sk-oai"
      [] k = "MISTRAL_API_KEY" -> "sk-mis"
      [] k = "GOOGLE_API_KEY"  -> "sk-goo"

FullEnv == [k \in EnvKeys |-> Some(Secret(k))]

Panic == [panic |-> "Error: Environment variable not set."]

\* a constructor that takes whichever credential the environment holds when
\* the provider's own one is not set
env_var_any(environment, provider) ==
    IF environment[EnvKey(provider)] # None
    THEN environment[EnvKey(provider)]
    ELSE IF \E k \in EnvKeys : environment[k] # None
         THEN environment[CHOOSE k \in EnvKeys : environment[k] # None]
         ELSE None

\* env::var of the key the match on the provider selects; an unset variable
\* (Err(VarError)) is None
env_var(environment, provider) ==
    environment[EnvKey(provider)]

\* ChatCompletionClient::new
new(env, provider, model, system_prompt) ==
    LET token == env_var(env, provider)
        msgs  == IF provider \in {"OpenAI", "Mistral"}
                 THEN <<SystemMessage(system_prompt)>>
                 ELSE <<>>
    IN  IF token = None
        THEN Panic
        ELSE [provider          |-> provider,
              model             |-> model,
              token             |-> unwrap(token),
              temperature       |-> Some(0),
              max_tokens        |-> Some(1028),
              top_p             |-> None,
              system            |-> system_prompt,
              messages          |-> msgs,
              stop              |-> None,
              presence_penalty  |-> None,
              frequency_penalty |-> None,
              logit_bias        |-> None,
              user              |-> None,
              top_k             |-> None,
              stream            |-> FALSE]

(* ------------------------------------------------------------------ *)
(* State                                                               *)
(* ------------------------------------------------------------------ *)

VARIABLES
    self,       \* the ChatCompletionClient
    pc,         \* "idle", or "awaiting" while send_message waits on the network
    request,    \* the last HTTP request issued
    response,   \* the outcome of the last exchange
    result,     \* what the last completed send_message returned
    returned,   \* what the last get_message_history returned
    op,         \* the operation that acted last
    posts,      \* HTTP POSTs issued by the current (or last) send_message
    arg,        \* the argument of the current (or last) send_message or setter call
    before,     \* self.messages when the current (or last) send_message began
    sends,      \* send_message calls made
    sets,       \* setter calls made
    supplied,   \* per configuration field, the last present value a setter got
    env,        \* the process environment: per credential key, its value if set
    input,      \* the operation a handler or a caller sends, with its arguments
    output,     \* what that operation did and produced
    sources,    \* State.sources: the text stored for each tracked document uri
    server,     \* "running", or "panicked" once an editor handler has panicked
    call,       \* the last editor notification or request handled
    context,    \* what the last get_source_range of a handler returned
    reply,      \* what the last editor request answered
    tasks,      \* the editor handlers running concurrently, each with its position
    lock        \* Backend.state's Mutex: its holder and the handlers waiting for it

\* the ChatCompletionClient session and what is observed of it
session == <<self, pc, request, response, result, returned, op, posts, arg,
             before, sends, sets, supplied>>

\* the editor server (Backend) and what is observed of it
backend == <<sources, server, call, context, reply, tasks, lock>>

\* everything but the session
outside == <<env, input, output, backend>>

vars == <<session, env, input, output, backend>>

NoRequest == [method |-> "none"]

NoResponse == [kind |-> "none"]

Pending == <<"Pending">>

ConfigFields ==
    {"temperature", "top_p", "max_tokens", "stop", "presence_penalty",
     "frequency_penalty", "logit_bias", "user", "top_k", "stream"}

\* no operation has been given arguments or has produced anything yet
Nothing == [nothing |-> TRUE]

\* no handler has extracted a context or answered yet
Unset == <<"Unset">>

\* no handler is running
NoCall == [method |-> "none"]

\* the handlers the server may run at the same time
TaskIds == {"t1", "t2"}

\* a handler that has not been called
NoTask ==
    [method |-> "none", params |-> Nothing, pc |-> "idle", context |-> Unset,
     inserted |-> FALSE, ticket |-> 0]

\* Mutex::new: nobody holds the lock, nobody waits, nobody was granted it
Unlocked == [holder |-> None, waiters |-> <<>>, granted |-> 0]

\* Backend::new: State::new() is an empty map; no request handled yet
InitBackend ==
    /\ sources = [u \in {} |-> <<>>]
    /\ server = "running"
    /\ call = NoCall
    /\ context = Unset
    /\ reply = Unset
    /\ tasks = [t \in TaskIds |-> NoTask]
    /\ lock = Unlocked

\* no catalog lookup and no fill-in-middle operation under way
InitOperation ==
    /\ input = Nothing
    /\ output = Nothing

Init ==
    /\ \E provider \in Provider, model \in Model :
           self = new(FullEnv, provider, model, SystemPrompt)
    /\ env = FullEnv
    /\ InitOperation
    /\ InitBackend
    /\ pc = "idle"
    /\ request = NoRequest
    /\ response = NoResponse
    /\ result = Pending
    /\ returned = None
    /\ op = "new"
    /\ posts = 0
    /\ arg = None
    /\ before = <<>>
    /\ sends = 0
    /\ sets = 0
    /\ supplied = [f \in ConfigFields |-> None]

(* ------------------------------------------------------------------ *)
(* JSON values, as serde_json builds them                              *)
(* ------------------------------------------------------------------ *)

json_null == <<"null">>

json_number(n) == <<"number", n>>

json_string(s) == <<"string", s>>

json_bool(b) == <<"bool", b>>

json_array(seq) == <<"array", seq>>

json_object(fields) == <<"object", fields>>

\* json!({}) : the object with no field
EmptyObject == json_object([k \in {} |-> json_null])

\* Option<f32> / Option<u32>: null when None
to_value_number(o) == IF o = None THEN json_null ELSE json_number(unwrap(o))

\* Option<String>
to_value_string(o) == IF o = None THEN json_null ELSE json_string(unwrap(o))

\* Option<Vec<String>>
to_value_strings(o) ==
    IF o = None THEN json_null
    ELSE json_array([i \in 1..Len(unwrap(o)) |-> json_string(unwrap(o)[i])])

\* Option<HashMap<String, f32>>
to_value_map(o) ==
    IF o = None THEN json_null
    ELSE json_object([k \in DOMAIN unwrap(o) |-> json_number(unwrap(o)[k])])

\* Serialize for Message (crate::models): an object of the role and the content
Serialize_Message(m) ==
    json_object([role |-> <<"Role", m.role>>, content |-> json_string(m.content)])

\* Vec<Message>
to_value_messages(msgs) ==
    json_array([i \in 1..Len(msgs) |-> Serialize_Message(msgs[i])])

\* Instruction::from(&Message) (crate::clients::google): Google's renamed role
Instruction_from(m) == json_object([instruction |-> Serialize_Message(m)])

(* ------------------------------------------------------------------ *)
(* send_message: the request                                           *)
(* ------------------------------------------------------------------ *)

\* let prompt = match &self.provider { ... }
prompt(s) ==
    CASE s.provider = "Anthropic" ->
           json_object(
             [model       |-> json_string(Serialize_Model(s.model)),
              temperature |-> to_value_number(s.temperature),
              max_tokens  |-> to_value_number(s.max_tokens),
              top_p       |-> to_value_number(s.top_p),
              top_k       |-> to_value_number(s.top_k),
              stream      |-> json_bool(s.stream),
              system      |-> json_string(s.system),
              messages    |-> to_value_messages(s.messages)])
      [] s.provider = "OpenAI" ->
           json_object(
             [model             |-> json_string(Serialize_Model(s.model)),
              temperature       |-> to_value_number(s.temperature),
              top_p             |-> to_value_number(s.top_p),
              max_tokens        |-> to_value_number(s.max_tokens),
              stream            |-> json_bool(s.stream),
              messages          |-> to_value_messages(s.messages),
              presence_penalty  |-> to_value_number(s.presence_penalty),
              frequency_penalty |-> to_value_number(s.frequency_penalty),
              stop              |-> to_value_strings(s.stop),
              logit_bias        |-> to_value_map(s.logit_bias),
              user              |-> to_value_string(s.user)])
      [] s.provider = "Google" ->
           json_object(
             [system_instruction |->
                  json_object([parts |-> json_object([text |-> json_string(s.system)])]),
              contents |->
                  json_array([i \in 1..Len(s.messages) |-> Instruction_from(s.messages[i])])])
      [] s.provider = "Mistral" -> EmptyObject

\* let request_url = match &self.provider { ... }: the pieces format! joins
request_url(s) ==
    CASE s.provider = "Anthropic" -> <<"https://api.anthropic.com/v1/messages">>
      [] s.provider = "OpenAI"    -> <<"https://api.openai.com/v1/chat/completions">>
      [] s.provider = "Mistral"   -> <<"https://api.mistral.ai/v1/chat/completions">>
      [] s.provider = "Google"    ->
           <<"https://generativelanguage.googleapis.com/v1beta/models/",
             Display_Model(s.model),
             "/generateContent?key=",
             s.token>>

\* req_base's header and the provider's authentication
headers(s) ==
    {<<"content-type", <<"application/json">>>>}
    \cup
    CASE s.provider = "Anthropic" ->
           {<<"anthropic-version", <<"2023-06-01">>>>, <<"x-api-key", <<s.token>>>>}
      [] s.provider \in {"OpenAI", "Mistral"} ->
           {<<"authorization", <<"Bearer ", s.token>>>>}
      [] s.provider = "Google" -> {}

\* Client::new().post(request_url).json(&prompt).header(...)
req(s) ==
    [method  |-> "POST",
     url     |-> request_url(s),
     headers |-> headers(s),
     body    |-> prompt(s)]

\* send_message, from its entry to `req.send().await`
send_message(message) ==
    /\ pc = "idle"
    /\ sends < MaxSends
    /\ self' = [self EXCEPT !.messages = Append(@, message)]
    /\ request' = req(self')
    /\ posts' = 1
    /\ pc' = "awaiting"
    /\ response' = NoResponse
    /\ result' = Pending
    /\ returned' = None
    /\ op' = "send_message"
    /\ arg' = Some(message)
    /\ before' = self.messages
    /\ sends' = sends + 1
    /\ UNCHANGED <<sets, supplied>>
    /\ UNCHANGED outside

(* ------------------------------------------------------------------ *)
(* send_message: the response                                          *)
(* ------------------------------------------------------------------ *)

\* response body texts a server may answer with
BodyReply == "{\"replies\":[\"ok\"]}"

BodyNoReply == "{\"replies\":[]}"

BodyError == "{\"error\":\"bad\"}"

BodyGarbage == "<html>"

Bodies == {BodyReply, BodyNoReply, BodyError, BodyGarbage}

StatusCodes == {200, 429}

Responses == [kind : {"http"}, status : StatusCodes, body : Bodies]

\* StatusCode::is_success
is_success(status) == 200 <= status /\ status <= 299

\* response.json::<Value>(): the parsed value, or the parse error
json_Value(text) ==
    CASE text = BodyReply   -> Ok([replies |-> <<"ok">>])
      [] text = BodyNoReply -> Ok([replies |-> <<>>])
      [] text = BodyError   -> Ok([error |-> "bad"])
      [] OTHER              -> Err("expected value at line 1 column 1")

\* serde_json::to_string_pretty
to_string_pretty(value) ==
    CASE value = [replies |-> <<"ok">>] -> "{\n  \"replies\": [\n    \"ok\"\n  ]\n}"
      [] value = [replies |-> <<>>]     -> "{\n  \"replies\": []\n}"
      [] value = [error |-> "bad"]      -> "{\n  \"error\": \"bad\"\n}"

\* response.json::<AnthropicResponse | OpenAIResponse | MistralResponse |
\* GoogleResponse>(): the provider's success payload, or a decode error
json_Response(text) ==
    LET v == json_Value(text)
    IN  IF v[1] = "Ok" /\ "replies" \in DOMAIN v[2]
        THEN Ok(v[2])
        ELSE Err(<<"reqwest::Error", "decode">>)

\* IntoMessage::into_message of a provider's success payload
into_message(payload) ==
    IF payload.replies = <<>>
    THEN None
    ELSE Some([role |-> "Assistant", content |-> payload.replies[1]])

\* a send_message that sends the request once more after a transport error
send_message_transport_error_retry ==
    /\ pc = "awaiting"
    /\ IF posts < 2
       THEN /\ posts' = posts + 1
            /\ UNCHANGED <<pc, response, result>>
       ELSE /\ response' = [kind |-> "transport error"]
            /\ result' = Err(<<"reqwest::Error", "send">>)
            /\ pc' = "idle"
            /\ UNCHANGED posts
    /\ UNCHANGED <<self, request, returned, op, arg, before, sends, sets, supplied>>
    /\ UNCHANGED outside

\* `req.send().await?` fails: the error is returned as it is
send_message_transport_error ==
    /\ pc = "awaiting"
    /\ response' = [kind |-> "transport error"]
    /\ result' = Err(<<"reqwest::Error", "send">>)
    /\ pc' = "idle"
    /\ UNCHANGED <<self, request, returned, op, posts, arg, before, sends,
                   sets, supplied>>
    /\ UNCHANGED outside

\* a send_message that formats the model as it is serialized
send_message_result_serialized(s, resp) ==
    IF is_success(resp.status)
    THEN LET decoded == json_Response(resp.body)
         IN  IF decoded[1] = "Err" THEN decoded ELSE Ok(into_message(decoded[2]))
    ELSE LET resp_json == json_Value(resp.body)
         IN  IF resp_json[1] = "Ok"
             THEN Err(<<Serialize_Model(s.model), "\n\n", to_string_pretty(resp_json[2])>>)
             ELSE Err(<<"Failed to parse response JSON: ", resp_json[2]>>)

\* the value send_message returns for an HTTP response
send_message_result(s, resp) ==
    IF is_success(resp.status)
    THEN LET decoded == json_Response(resp.body)
         IN  IF decoded[1] = "Err" THEN decoded ELSE Ok(into_message(decoded[2]))
    ELSE LET resp_json == json_Value(resp.body)
         IN  IF resp_json[1] = "Ok"
             THEN Err(<<Display_Model(s.model), "\n\n", to_string_pretty(resp_json[2])>>)
             ELSE Err(<<"Failed to parse response JSON: ", resp_json[2]>>)

\* a send_message that returns the reply without pushing it
send_message_push_forgotten(s, resp) == s.messages

\* self.messages after send_message has handled an HTTP response
send_message_push(s, resp) ==
    LET r == send_message_result(s, resp)
    IN  IF is_success(resp.status) /\ r[1] = "Ok" /\ r[2] # None
        THEN Append(s.messages, unwrap(r[2]))
        ELSE s.messages

\* send_message resumed with the HTTP response, to its return
send_message_response(resp) ==
    /\ pc = "awaiting"
    /\ response' = resp
    /\ result' = send_message_result(self, resp)
    /\ self' = [self EXCEPT !.messages = send_message_push(self, resp)]
    /\ pc' = "idle"
    /\ UNCHANGED <<request, returned, op, posts, arg, before, sends, sets,
                   supplied>>
    /\ UNCHANGED outside

(* ------------------------------------------------------------------ *)
(* get_message_history                                                 *)
(* ------------------------------------------------------------------ *)

\* the Vec<Message> get_message_history returns
message_history(s) ==
    IF s.provider \in {"Anthropic", "Google"}
    THEN <<SystemMessage(s.system)>> \o s.messages
    ELSE s.messages

\* a get_message_history that appends the stored list itself, leaving it empty
get_message_history_drain ==
    /\ pc = "idle"
    /\ returned' = Some(message_history(self))
    /\ self' = [self EXCEPT !.messages =
                    IF self.provider \in {"Anthropic", "Google"} THEN <<>> ELSE @]
    /\ op' = "get_message_history"
    /\ UNCHANGED <<pc, request, response, result, posts, arg, before, sends,
                   sets, supplied>>
    /\ UNCHANGED outside

\* get_message_history(&self): it reads self and works on a clone of the list
get_message_history ==
    /\ pc = "idle"
    /\ returned' = Some(message_history(self))
    /\ self' = self
    /\ op' = "get_message_history"
    /\ UNCHANGED <<pc, request, response, result, posts, arg, before, sends,
                   sets, supplied>>
    /\ UNCHANGED outside

(* ------------------------------------------------------------------ *)
(* The session                                                         *)
(* ------------------------------------------------------------------ *)

Next ==
    \/ \E message \in Message : send_message(message)
    \/ send_message_transport_error
    \/ \E resp \in Responses : send_message_response(resp)
    \/ get_message_history

Spec == Init /\ [][Next]_vars

(* ------------------------------------------------------------------ *)
(* Configuration setters                                               *)
(* ------------------------------------------------------------------ *)

\* f32 values a caller may pass (n stands for n.0)
F32s == {0, 1}

\* u32 values a caller may pass
U32s == {256, 1024}

Option(S) == {None} \cup {Some(x) : x \in S}

StopLists == {<<>>, <<"END">>}

LogitBiases == {[k \in {} |-> 0], [k \in {"50256"} |-> 1]}

Users == {"alice", "bob"}

\* a temperature setter that stores its argument whether present or not
temperature_overwrite(v) ==
    /\ pc = "idle"
    /\ sets < MaxSets
    /\ self' = [self EXCEPT !.temperature = v]
    /\ supplied' = [supplied EXCEPT !["temperature"] = IF v # None THEN v ELSE @]
    /\ op' = "temperature"
    /\ arg' = Some(v)
    /\ sets' = sets + 1
    /\ UNCHANGED <<pc, request, response, result, returned, posts, before, sends>>
    /\ UNCHANGED outside

\* pub const fn temperature(mut self, temperature: Option<_>) -> Self
temperature(v) ==
    /\ pc = "idle"
    /\ sets < MaxSets
    /\ self' = [self EXCEPT !.temperature = IF v # None THEN Some(unwrap(v)) ELSE @]
    /\ supplied' = [supplied EXCEPT !["temperature"] = IF v # None THEN v ELSE @]
    /\ op' = "temperature"
    /\ arg' = Some(v)
    /\ sets' = sets + 1
    /\ UNCHANGED <<pc, request, response, result, returned, posts, before, sends>>
    /\ UNCHANGED outside

\* pub const fn top_p(mut self, top_p: Option<_>) -> Self
top_p(v) ==
    /\ pc = "idle"
    /\ sets < MaxSets
    /\ self' = [self EXCEPT !.top_p = IF v # None THEN Some(unwrap(v)) ELSE @]
    /\ supplied' = [supplied EXCEPT !["top_p"] = IF v # None THEN v ELSE @]
    /\ op' = "top_p"
    /\ arg' = Some(v)
    /\ sets' = sets + 1
    /\ UNCHANGED <<pc, request, response, result, returned, posts, before, sends>>
    /\ UNCHANGED outside

\* pub const fn max_tokens(mut self, max_tokens: Option<_>) -> Self
max_tokens(v) ==
    /\ pc = "idle"
    /\ sets < MaxSets
    /\ self' = [self EXCEPT !.max_tokens = IF v # None THEN Some(unwrap(v)) ELSE @]
    /\ supplied' = [supplied EXCEPT !["max_tokens"] = IF v # None THEN v ELSE @]
    /\ op' = "max_tokens"
    /\ arg' = Some(v)
    /\ sets' = sets + 1
    /\ UNCHANGED <<pc, request, response, result, returned, posts, before, sends>>
    /\ UNCHANGED outside

\* pub fn stop(mut self, stop: _) -> Self
stop(v) ==
    /\ pc = "idle"
    /\ sets < MaxSets
    /\ self' = [self EXCEPT !.stop = Some(v)]
    /\ supplied' = [supplied EXCEPT !["stop"] = Some(v)]
    /\ op' = "stop"
    /\ arg' = Some(v)
    /\ sets' = sets + 1
    /\ UNCHANGED <<pc, request, response, result, returned, posts, before, sends>>
    /\ UNCHANGED outside

\* pub fn presence_penalty(mut self, presence_penalty: _) -> Self
presence_penalty(v) ==
    /\ pc = "idle"
    /\ sets < MaxSets
    /\ self' = [self EXCEPT !.presence_penalty = Some(v)]
    /\ supplied' = [supplied EXCEPT !["presence_penalty"] = Some(v)]
    /\ op' = "presence_penalty"
    /\ arg' = Some(v)
    /\ sets' = sets + 1
    /\ UNCHANGED <<pc, request, response, result, returned, posts, before, sends>>
    /\ UNCHANGED outside

\* pub fn frequency_penalty(mut self, frequency_penalty: _) -> Self
frequency_penalty(v) ==
    /\ pc = "idle"
    /\ sets < MaxSets
    /\ self' = [self EXCEPT !.frequency_penalty = Some(v)]
    /\ supplied' = [supplied EXCEPT !["frequency_penalty"] = Some(v)]
    /\ op' = "frequency_penalty"
    /\ arg' = Some(v)
    /\ sets' = sets + 1
    /\ UNCHANGED <<pc, request, response, result, returned, posts, before, sends>>
    /\ UNCHANGED outside

\* pub fn logit_bias(mut self, logit_bias: _) -> Self
logit_bias(v) ==
    /\ pc = "idle"
    /\ sets < MaxSets
    /\ self' = [self EXCEPT !.logit_bias = Some(v)]
    /\ supplied' = [supplied EXCEPT !["logit_bias"] = Some(v)]
    /\ op' = "logit_bias"
    /\ arg' = Some(v)
    /\ sets' = sets + 1
    /\ UNCHANGED <<pc, request, response, result, returned, posts, before, sends>>
    /\ UNCHANGED outside

\* pub fn user(mut self, user: _) -> Self
user(v) ==
    /\ pc = "idle"
    /\ sets < MaxSets
    /\ self' = [self EXCEPT !.user = Some(v)]
    /\ supplied' = [supplied EXCEPT !["user"] = Some(v)]
    /\ op' = "user"
    /\ arg' = Some(v)
    /\ sets' = sets + 1
    /\ UNCHANGED <<pc, request, response, result, returned, posts, before, sends>>
    /\ UNCHANGED outside

\* pub fn top_k(mut self, top_k: _) -> Self
top_k(v) ==
    /\ pc = "idle"
    /\ sets < MaxSets
    /\ self' = [self EXCEPT !.top_k = Some(v)]
    /\ supplied' = [supplied EXCEPT !["top_k"] = Some(v)]
    /\ op' = "top_k"
    /\ arg' = Some(v)
    /\ sets' = sets + 1
    /\ UNCHANGED <<pc, request, response, result, returned, posts, before, sends>>
    /\ UNCHANGED outside

\* pub fn stream(mut self, stream: _) -> Self
stream(v) ==
    /\ pc = "idle"
    /\ sets < MaxSets
    /\ self' = [self EXCEPT !.stream = v]
    /\ supplied' = [supplied EXCEPT !["stream"] = Some(v)]
    /\ op' = "stream"
    /\ arg' = Some(v)
    /\ sets' = sets + 1
    /\ UNCHANGED <<pc, request, response, result, returned, posts, before, sends>>
    /\ UNCHANGED outside

NextConfig ==
    \/ \E v \in Option(F32s) : temperature(v)
    \/ \E v \in Option(F32s) : top_p(v)
    \/ \E v \in Option(U32s) : max_tokens(v)
    \/ \E v \in StopLists : stop(v)
    \/ \E v \in F32s : presence_penalty(v)
    \/ \E v \in F32s : frequency_penalty(v)
    \/ \E v \in LogitBiases : logit_bias(v)
    \/ \E v \in Users : user(v)
    \/ \E v \in U32s : top_k(v)
    \/ \E v \in BOOLEAN : stream(v)

\* a session under construction: new(...) followed by chained setter calls
SpecConfig == Init /\ [][NextConfig]_vars

(* ------------------------------------------------------------------ *)
(* Claims                                                              *)
(* ------------------------------------------------------------------ *)

\* positions of list msgs that hold message m
Occurrences(msgs, m) == {i \in 1..Len(msgs) : msgs[i] = m}

\* C1: the stored history of an Anthropic or Google session never holds the
\* system prompt as a System-role message, and the stored history of an OpenAI
\* or Mistral session always starts with the System message of the prompt.
C1_HistorySystemPlacement ==
    /\ self.provider \in {"Anthropic", "Google"} =>
           Occurrences(self.messages, SystemMessage(self.system)) = {}
    /\ self.provider \in {"OpenAI", "Mistral"} =>
           /\ Len(self.messages) >= 1
           /\ self.messages[1] = SystemMessage(self.system)

\* C2: what get_message_history returns is, for Anthropic and Google, one
\* leading system message followed by the stored history, and holds the system
\* message exactly once for every provider (it is never duplicated).
C2_HistoryOneSystemMessage ==
    op = "get_message_history" =>
        LET history == unwrap(returned)
        IN  /\ self.provider \in {"Anthropic", "Google"} =>
                   history = <<SystemMessage(self.system)>> \o self.messages
            /\ Cardinality(Occurrences(history, SystemMessage(self.system))) = 1

\* the reply the provider's adapter extracts from an HTTP success, or the
\* decode error
AdapterResult(resp) ==
    LET decoded == json_Response(resp.body)
    IN  IF decoded[1] = "Err" THEN decoded ELSE Ok(into_message(decoded[2]))

\* send_message has returned after an HTTP response
Returned == pc = "idle" /\ response.kind = "http"

\* C3: after an HTTP success whose adapter result is a reply r, the stored
\* history is the previous history, then the message sent, then r, and r is
\* returned; when the adapter result is absent the stored history is the
\* previous history and the message sent, and the call returns Ok(None).
C3_SuccessAppendsReply ==
    (Returned /\ is_success(response.status) /\ AdapterResult(response)[1] = "Ok") =>
        LET r == AdapterResult(response)[2]
        IN  IF r # None
            THEN /\ self.messages = before \o <<unwrap(arg), unwrap(r)>>
                 /\ result = Ok(r)
            ELSE /\ self.messages = before \o <<unwrap(arg)>>
                 /\ result = Ok(None)

\* C3 witness: a second send_message got a reply
C3_Witness ==
    /\ Returned
    /\ sends = 2
    /\ response = [kind |-> "http", status |-> 200, body |-> BodyReply]
    /\ result = Ok(Some([role |-> "Assistant", content |-> "ok"]))
    /\ Len(self.messages) = Len(before) + 2

\* text is one of the pieces of a formatted error message
Contains(pieces, text) == \E i \in 1..Len(pieces) : pieces[i] = text

\* C4: a non-success HTTP status whose body parses as JSON makes send_message
\* return an error holding the model's display identifier and the
\* pretty-printed body; a body that does not parse makes it return a distinct
\* parse-failure error.
C4_ProtocolError ==
    (Returned /\ ~is_success(response.status)) =>
        LET parsed == json_Value(response.body)
        IN  /\ result[1] = "Err"
            /\ IF parsed[1] = "Ok"
               THEN /\ Contains(result[2], Display_Model(self.model))
                    /\ Contains(result[2], to_string_pretty(parsed[2]))
                    /\ ~Contains(result[2], "Failed to parse response JSON: ")
               ELSE /\ result[2][1] = "Failed to parse response JSON: "
                    /\ ~Contains(result[2], Display_Model(self.model))

\* C4 witness: Codestral answered 429 with a JSON error object
C4_Witness ==
    /\ Returned
    /\ self.model = "Codestral"
    /\ response = [kind |-> "http", status |-> 429, body |-> BodyError]
    /\ result = Err(<<"Codestral", "\n\n", "{\n  \"error\": \"bad\"\n}">>)

\* C5: every send_message issues exactly one HTTP POST before it returns,
\* whatever the outcome; none issues a second request.
C5_OnePostPerCall ==
    /\ posts <= 1
    /\ sends > 0 => posts = 1
    /\ (pc = "idle" /\ sends > 0) =>
           /\ result # Pending
           /\ request.method = "POST"

\* C5 witness: a second send_message returned after a transport error
C5_Witness ==
    /\ pc = "idle"
    /\ sends = 2
    /\ response.kind = "transport error"
    /\ result = Err(<<"reqwest::Error", "send">>)
    /\ posts = 1

\* the fields of a JSON object, and the elements of a JSON array
Fields(object) == object[2]

Elements(array) == array[2]

\* C6: the request body of an OpenAI session and of a Mistral session is a
\* flat object with the model, the generation parameters and a messages array
\* equal to the stored history, leading system message included.
C6_OpenAIMistralBody ==
    (pc = "awaiting" /\ self.provider \in {"OpenAI", "Mistral"}) =>
        LET body == request.body
        IN  /\ body[1] = "object"
            /\ {"model", "temperature", "top_p", "max_tokens", "messages", "stop",
                "presence_penalty", "frequency_penalty", "logit_bias", "user"}
                   \subseteq DOMAIN Fields(body)
            /\ Fields(body).model = json_string(Serialize_Model(self.model))
            /\ Fields(body).temperature = to_value_number(self.temperature)
            /\ Fields(body).top_p = to_value_number(self.top_p)
            /\ Fields(body).max_tokens = to_value_number(self.max_tokens)
            /\ Fields(body).messages = to_value_messages(self.messages)
            /\ Elements(Fields(body).messages)[1]
                   = Serialize_Message(SystemMessage(self.system))

\* C7: the messages array of every request body of an Anthropic session holds
\* no System-role message; the system prompt is in the top-level system field.
C7_AnthropicNoSystemMessage ==
    (pc = "awaiting" /\ self.provider = "Anthropic") =>
        LET body == Fields(request.body)
        IN  /\ body.system = json_string(self.system)
            /\ \A i \in 1..Len(Elements(body.messages)) :
                   Fields(Elements(body.messages)[i]).role # <<"Role", "System">>

\* C8: every place of a request that names the model (the body's model field,
\* the model component of Google's endpoint URL) carries the model's wire
\* string, never its display name.
C8_ModelWireString ==
    request.method = "POST" =>
        /\ "model" \in DOMAIN Fields(request.body) =>
               Fields(request.body).model = json_string(Serialize_Model(self.model))
        /\ self.provider = "Google" => request.url[2] = Serialize_Model(self.model)
        /\ ~Contains(request.url, Display_Model(self.model))

\* C9: get_message_history is read-only and idempotent: the call leaves the
\* stored history, the system prompt and the configuration as they were, and a
\* call that follows another returns the same sequence.
C9_GetHistoryReadOnly ==
    [][op' = "get_message_history" =>
           /\ self' = self
           /\ op = "get_message_history" => returned' = returned]_vars

\* C9 witness: the history of an Anthropic session was read after two sends
C9_Witness ==
    /\ op = "get_message_history"
    /\ self.provider = "Anthropic"
    /\ sends = 2
    /\ Len(self.messages) >= 3
    /\ returned = Some(<<SystemMessage(self.system)>> \o self.messages)

\* the value new() seeds a configuration field with
Default(f) ==
    CASE f = "temperature" -> Some(0)
      [] f = "max_tokens"  -> Some(1028)
      [] f = "stream"      -> FALSE
      [] OTHER             -> None

\* the setters that take an Option
OptionSetters == {"temperature", "top_p", "max_tokens"}

\* C10: every configuration field holds the last present value its setter was
\* given, or its construction default when none was; a setter called with an
\* absent value leaves every field as it was.
C10_SettersKeepLastPresent ==
    /\ [](\A f \in ConfigFields :
             self[f] = IF supplied[f] = None THEN Default(f)
                       ELSE IF f = "stream" THEN unwrap(supplied[f])
                       ELSE supplied[f])
    /\ [][(sets' = sets + 1 /\ op' \in OptionSetters /\ arg' = Some(None)) =>
              self' = self]_vars

\* C10 witness: temperature was set to 1 and then its setter was called with
\* an absent value
C10_Witness ==
    /\ sets = 2
    /\ op = "temperature"
    /\ arg = Some(None)
    /\ supplied["temperature"] = Some(1)
    /\ self.temperature = Some(1)

\* ---------------------------------------------------------------------------
\* Construction of a session under any process environment
\* ---------------------------------------------------------------------------

\* the environments of a process: each credential is set or not
Envs ==
    {e \in [EnvKeys -> {None} \cup {Some(Secret(k)) : k \in EnvKeys}] :
        \A k \in EnvKeys : e[k] \in {None, Some(Secret(k))}}

\* no session has been constructed
NoSession == [session |-> "none"]

\* no session exists and nothing has been sent or configured
InitNoSession ==
    /\ self = NoSession
    /\ pc = "idle"
    /\ request = NoRequest
    /\ response = NoResponse
    /\ result = Pending
    /\ returned = None
    /\ op = "start"
    /\ posts = 0
    /\ arg = None
    /\ before = <<>>
    /\ sends = 0
    /\ sets = 0
    /\ supplied = [f \in ConfigFields |-> None]

InitNew ==
    /\ env \in Envs
    /\ InitNoSession
    /\ InitOperation
    /\ InitBackend

\* a caller constructs the session: ChatCompletionClient::new(provider, model,
\* system_prompt) either yields the client or panics, which aborts the process
ChatCompletionClient_new(provider, model) ==
    /\ self = NoSession
    /\ self' = new(env, provider, model, SystemPrompt)
    /\ op' = "new"
    /\ arg' = Some(<<provider, model>>)
    /\ UNCHANGED <<pc, request, response, result, returned, posts, before,
                   sends, sets, supplied>>
    /\ UNCHANGED outside

NextNew ==
    \E provider \in Provider, model \in Model :
        ChatCompletionClient_new(provider, model)

SpecNew == InitNew /\ [][NextNew]_vars

\* C11: constructing a ChatCompletionClient for a provider whose credential is
\* not set in the process environment aborts (the constructor panics and no
\* session exists), whatever other providers' credentials are set; when the
\* provider's credential is set the session holds that very credential.
C11_MissingCredentialAborts ==
    (op = "new" /\ arg # None) =>
        LET provider == unwrap(arg)[1]
        IN  /\ env[EnvKey(provider)] = None => self = Panic
            /\ env[EnvKey(provider)] # None =>
                   /\ self \notin {Panic, NoSession}
                   /\ self.provider = provider
                   /\ self.token = unwrap(env[EnvKey(provider)])

\* Mistral's credential is not set, OpenAI's is, and the construction for
\* Mistral has aborted
C11_Witness ==
    /\ op = "new"
    /\ arg # None
    /\ unwrap(arg)[1] = "Mistral"
    /\ env["MISTRAL_API_KEY"] = None
    /\ env["OPENAI_API_KEY"] # None
    /\ self = Panic

\* ---------------------------------------------------------------------------
\* Provider catalog: ProviderModel::get_or_default
\* ---------------------------------------------------------------------------

\* the names a caller may pass: the aliases, and names that are no alias (the
\* empty string, other case, surrounding whitespace, a model's wire name, a
\* longer or shorter spelling)
ModelNames ==
    {"gpt-4-turbo", "gpt-3-turbo", "sonnet", "opus", "sonnet3", "haiku",
     "gemini-flash", "gemini-pro",
     "", "Sonnet", "HAIKU", " sonnet", "opus ", "gpt-4o", "codestral",
     "sonnet35", "gemini", "claude-3-opus-20240229"}

\* str::to_lowercase on the names above
to_lowercase(name) ==
    CASE name = "Sonnet" -> "sonnet"
      [] name = "HAIKU"  -> "haiku"
      [] OTHER           -> name

\* the match on model_name: a pair (Provider, Model)
match_model_name(model_name, default) ==
    CASE model_name = "gpt-4-turbo"  -> <<"OpenAI", "GPT4Turbo">>
      [] model_name = "gpt-3-turbo"  -> <<"OpenAI", "GPT3Turbo">>
      [] model_name = "sonnet"       -> <<"Anthropic", "Claude3_5Sonnet">>
      [] model_name = "opus"         -> <<"Anthropic", "Claude3Opus">>
      [] model_name = "sonnet3"      -> <<"Anthropic", "Claude3Sonnet">>
      [] model_name = "haiku"        -> <<"Anthropic", "Claude3Haiku">>
      [] model_name = "gemini-flash" -> <<"Google", "GeminiFlash">>
      [] model_name = "gemini-pro"   -> <<"Google", "GeminiPro">>
      [] OTHER                       -> default

\* a lookup that folds the case of the name before matching
get_or_default_ignore_case(model_name, default) ==
    LET res == match_model_name(to_lowercase(model_name), default)
    IN  [provider |-> res[1], model |-> res[2]]

\* ProviderModel::get_or_default
get_or_default(model_name, default) ==
    LET res == match_model_name(model_name, default)
    IN  [provider |-> res[1], model |-> res[2]]

InitCatalog ==
    /\ input \in [model_name : ModelNames, default : Provider \X Model]
    /\ output = Nothing
    /\ env = FullEnv
    /\ InitNoSession
    /\ InitBackend

\* a caller resolves a name
ProviderModel_get_or_default ==
    /\ output = Nothing
    /\ output' = get_or_default(input.model_name, input.default)
    /\ UNCHANGED <<session, env, input, backend>>

NextCatalog ==
    ProviderModel_get_or_default

SpecCatalog == InitCatalog /\ [][NextCatalog]_vars

\* the alias table the catalog is specified by
AliasTable ==
    [a \in {"gpt-4-turbo", "gpt-3-turbo", "sonnet", "opus", "sonnet3",
            "haiku", "gemini-flash", "gemini-pro"} |->
        CASE a = "gpt-4-turbo"  -> [provider |-> "OpenAI",    model |-> "GPT4Turbo"]
          [] a = "gpt-3-turbo"  -> [provider |-> "OpenAI",    model |-> "GPT3Turbo"]
          [] a = "sonnet"       -> [provider |-> "Anthropic", model |-> "Claude3_5Sonnet"]
          [] a = "opus"         -> [provider |-> "Anthropic", model |-> "Claude3Opus"]
          [] a = "sonnet3"      -> [provider |-> "Anthropic", model |-> "Claude3Sonnet"]
          [] a = "haiku"        -> [provider |-> "Anthropic", model |-> "Claude3Haiku"]
          [] a = "gemini-flash" -> [provider |-> "Google",    model |-> "GeminiFlash"]
          [] a = "gemini-pro"   -> [provider |-> "Google",    model |-> "GeminiPro"]]

\* C12: the catalog lookup is total: a name that exactly equals an alias
\* yields that alias's provider and model whatever the default is; every other
\* name (the empty string, another case, surrounding whitespace included)
\* yields the caller's default unchanged; the lookup never fails.
C12_ResolveTotal ==
    (input # Nothing /\ output # Nothing) =>
        /\ output \in [provider : Provider, model : Model]
        /\ input.model_name \in DOMAIN AliasTable =>
               output = AliasTable[input.model_name]
        /\ input.model_name \notin DOMAIN AliasTable =>
               output = [provider |-> input.default[1],
                         model    |-> input.default[2]]

\* "Sonnet" differs from the alias "sonnet" only in case and the lookup has
\* answered the caller's default, which is not what "sonnet" stands for
C12_Witness ==
    /\ input # Nothing
    /\ input.model_name = "Sonnet"
    /\ input.default = <<"Mistral", "Codestral">>
    /\ output = [provider |-> "Mistral", model |-> "Codestral"]

\* ---------------------------------------------------------------------------
\* Fill-in-middle: Complete::send
\* ---------------------------------------------------------------------------
\* A text is the sequence of its characters; byte indices are counted from 0
\* as in the code (all characters here are one byte long).

MaxPieces == 3

\* the literal "<fim>"
FIM == <<"<", "f", "i", "m", ">">>

\* what a context is put together from: "foo(", ")bar", the marker, and a
\* lone "<" that starts like the marker
Pieces == {<<"f", "o", "o", "(">>, <<")", "b", "a", "r">>, FIM, <<"<">>}

RECURSIVE Concats(_)
Concats(n) ==
    IF n = 0
    THEN {<<>>}
    ELSE LET shorter == Concats(n - 1)
         IN  shorter \cup {t \o piece : t \in shorter, piece \in Pieces}

\* the context texts a caller may supply
Contexts == Concats(MaxPieces)

\* str::find: the byte index of the first occurrence of pat, if any
find(text, pat) ==
    LET hits == {i \in 0..(Len(text) - Len(pat)) :
                    SubSeq(text, i + 1, i + Len(pat)) = pat}
    IN  IF hits = {}
        THEN None
        ELSE Some(CHOOSE i \in hits : \A j \in hits : i <= j)

\* str::rfind: the byte index of the last occurrence of pat, if any
rfind(text, pat) ==
    LET hits == {i \in 0..(Len(text) - Len(pat)) :
                    SubSeq(text, i + 1, i + Len(pat)) = pat}
    IN  IF hits = {}
        THEN None
        ELSE Some(CHOOSE i \in hits : \A j \in hits : i >= j)

\* str::split_at
split_at(text, index) ==
    <<SubSeq(text, 1, index), SubSeq(text, index + 1, Len(text))>>

\* a split at the last marker of the text
prefix_suffix_last(ctx) ==
    LET index == rfind(ctx, FIM)
    IN  IF index = None
        THEN [prefix |-> ctx, suffix |-> None]
        ELSE LET parts == split_at(ctx, unwrap(index))
             IN  [prefix |-> parts[1],
                  suffix |-> Some(SubSeq(parts[2], 6, Len(parts[2])))]

\* let (prefix, suffix) = prompt.find("<fim>").map_or_else(..): after[5..] is
\* the text from byte 5 of `after` on
prefix_suffix(ctx) ==
    LET index == find(ctx, FIM)
    IN  IF index = None
        THEN [prefix |-> ctx, suffix |-> None]
        ELSE LET parts == split_at(ctx, unwrap(index))
             IN  [prefix |-> parts[1],
                  suffix |-> Some(SubSeq(parts[2], 6, Len(parts[2])))]

\* the model names Complete is configured with
CompleteModels == {None, Some("sonnet"), Some("opus3"), Some("opus")}

\* let model_provider = self.model.clone().map_or(..)
model_provider(model) ==
    IF model = None
    THEN <<"Mistral", "Codestral">>
    ELSE CASE unwrap(model) = "gpt-4-turbo" -> <<"OpenAI", "GPT4Turbo">>
           [] unwrap(model) = "gpt-3-turbo" -> <<"OpenAI", "GPT3Turbo">>
           [] unwrap(model) = "sonnet"      -> <<"Anthropic", "Claude3_5Sonnet">>
           [] unwrap(model) = "opus3"       -> <<"Anthropic", "Claude3Opus">>
           [] unwrap(model) = "sonnet3"     -> <<"Anthropic", "Claude3Sonnet">>
           [] unwrap(model) = "haiku3"      -> <<"Anthropic", "Claude3Haiku">>
           [] OTHER                         -> <<"Mistral", "Codestral">>

\* the contents a completion reply may have
ReplyContents == {<<"X">>, <<>>}

\* what client.send_message(&prefix, suffix).await yields: a reply, no reply,
\* or an error
CompletionOutcomes ==
    {Ok(Some([content |-> c])) : c \in ReplyContents} \cup
    {Ok(None), Err(<<"request failed">>)}

\* a reassembly that leaves the suffix out
Complete_result_no_suffix(prefix, suffix, msg_opt) ==
    IF msg_opt # None
    THEN Some(prefix \o unwrap(msg_opt).content)
    ELSE None

\* let result = if let Some(msg) = response { .. } else { None }
Complete_result(prefix, suffix, msg_opt) ==
    IF msg_opt # None
    THEN IF suffix # None
         THEN Some(prefix \o unwrap(msg_opt).content \o unwrap(suffix))
         ELSE Some(prefix \o unwrap(msg_opt).content)
    ELSE None

\* what Complete::send returns for a context and the client's answer
Complete_send_returned(ctx, outcome) ==
    IF ctx # None
    THEN LET split == prefix_suffix(unwrap(ctx))
         IN  IF outcome[1] = "Err"
             THEN outcome
             ELSE Ok(Complete_result(split.prefix, split.suffix, outcome[2]))
    ELSE Ok(None)

InitComplete ==
    /\ input \in [model : CompleteModels,
                   context : {None} \cup {Some(t) : t \in Contexts}]
    /\ output = Nothing
    /\ env = FullEnv
    /\ InitNoSession
    /\ InitBackend

\* Complete::send; outcome is what the completion client answers if it is
\* asked.  sent lists the requests handed to the client, saved tells whether
\* the history was written out.
Complete_send(outcome) ==
    /\ output = Nothing
    /\ LET client == model_provider(input.model)
       IN  IF input.context # None
           THEN LET split == prefix_suffix(unwrap(input.context))
                    sent  == <<[prefix |-> split.prefix, suffix |-> split.suffix]>>
                IN  output' = [client   |-> client,
                               sent     |-> sent,
                               response |-> outcome,
                               saved    |-> (outcome[1] # "Err"),
                               returned |-> Complete_send_returned(input.context,
                                                                   outcome)]
           ELSE /\ outcome = Ok(None)
                /\ output' = [client   |-> client,
                              sent     |-> <<>>,
                              response |-> Ok(None),
                              saved    |-> FALSE,
                              returned |-> Ok(None)]
    /\ UNCHANGED <<session, env, input, backend>>

NextComplete ==
    \E outcome \in CompletionOutcomes : Complete_send(outcome)

SpecComplete == InitComplete /\ [][NextComplete]_vars

\* the text holds the marker somewhere
Marked(text) ==
    \E i \in 1..(Len(text) - 4) : SubSeq(text, i, i + 4) = FIM

\* C13: splitting a context: without a marker the prefix is the whole text and
\* there is no suffix; with a marker the prefix is the text before it and the
\* suffix the text after the marker's own characters, so prefix + marker +
\* suffix is the original text and the prefix holds no marker.
C13_FimSplit ==
    (output # Nothing /\ input.context # None) =>
        LET ctx == unwrap(input.context)
            split  == output.sent[1]
        IN  /\ Len(output.sent) = 1
            /\ ~Marked(ctx) =>
                   /\ split.prefix = ctx
                   /\ split.suffix = None
            /\ Marked(ctx) =>
                   /\ split.suffix # None
                   /\ split.prefix \o FIM \o unwrap(split.suffix) = ctx
                   /\ ~Marked(split.prefix)

\* "foo(<fim>)bar" was split into "foo(" and ")bar"
C13_Witness ==
    /\ output # Nothing
    /\ input.context =
           Some(<<"f", "o", "o", "(", "<", "f", "i", "m", ">", ")", "b", "a", "r">>)
    /\ output.sent = <<[prefix |-> <<"f", "o", "o", "(">>,
                        suffix |-> Some(<<")", "b", "a", "r">>)]>>

\* C14: the fill-in-middle operation answers prefix + reply + suffix when the
\* client produced a reply and the context had a suffix, prefix + reply when it
\* produced a reply and the context had no marker, and None when no context was
\* supplied or no reply was produced; without a context the client is never
\* asked (no network request).
C14_FimResult ==
    output # Nothing =>
        /\ input.context = None =>
               /\ output.returned = Ok(None)
               /\ output.sent = <<>>
        /\ (input.context # None /\ output.response = Ok(None)) =>
               output.returned = Ok(None)
        /\ (input.context # None /\ output.response[1] = "Ok"
                                 /\ output.response # Ok(None)) =>
               LET content == unwrap(output.response[2]).content
                   split   == output.sent[1]
               IN  /\ Marked(unwrap(input.context)) =>
                          output.returned =
                              Ok(Some(split.prefix \o content \o unwrap(split.suffix)))
                   /\ ~Marked(unwrap(input.context)) =>
                          output.returned = Ok(Some(split.prefix \o content))

\* the reply "X" to "foo(<fim>)bar" has been put back together as "foo(X)bar"
C14_Witness ==
    /\ output # Nothing
    /\ input.context =
           Some(<<"f", "o", "o", "(", "<", "f", "i", "m", ">", ")", "b", "a", "r">>)
    /\ output.response = Ok(Some([content |-> <<"X">>]))
    /\ output.returned =
           Ok(Some(<<"f", "o", "o", "(", "X", ")", "b", "a", "r">>))

\* ---------------------------------------------------------------------------
\* Editor server: the document store (State) and the handlers of Backend
\* ---------------------------------------------------------------------------
\* A document text is the sequence of its characters.  Each handler takes the
\* lock on the store for one statement only and touches the store nowhere
\* else, so the body of a handler is one step here; a second step is its
\* return, after which the next message is handled.

MaxTextLen == 3

\* the characters of a document text: a letter and the line feed
Chars == {"a", "\n"}

\* the texts an editor may send
Texts == UNION {[1..n -> Chars] : n \in 0..MaxTextLen}

\* the document uris an editor may name
Uris == {"file:///a.rs", "file:///b.rs"}

\* line numbers an editor may send: up to the most lines a document has,
\* which is past the end of every document with fewer lines
MaxLine == MaxTextLen

Positions == [line : 0..MaxLine, character : {0}]

Ranges == [start : Positions, end : Positions]

\* HashMap::insert
HashMap_insert(map, key, value) ==
    [k \in DOMAIN map \cup {key} |-> IF k = key THEN value ELSE map[k]]

\* an open that stores the text whether or not the uri is tracked
insert_source_overwrite(srcs, document) ==
    HashMap_insert(srcs, document.uri, document.text)

\* State::insert_source
insert_source(srcs, document) ==
    IF document.uri \notin DOMAIN srcs
    THEN HashMap_insert(srcs, document.uri, document.text)
    ELSE srcs

\* a save that only replaces the text of a uri that is tracked
update_source_tracked(srcs, document, text) ==
    IF text # None /\ document.uri \in DOMAIN srcs
    THEN HashMap_insert(srcs, document.uri, unwrap(text))
    ELSE srcs

\* State::update_source
update_source(srcs, document, text) ==
    IF text # None
    THEN HashMap_insert(srcs, document.uri, unwrap(text))
    ELSE srcs

\* str::lines: the lines of a text without their line feeds; a final line
\* feed does not start another line
RECURSIVE lines(_)
lines(text) ==
    IF text = <<>>
    THEN <<>>
    ELSE LET feeds == {i \in 1..Len(text) : text[i] = "\n"}
         IN  IF feeds = {}
             THEN <<text>>
             ELSE LET i == CHOOSE i \in feeds : \A j \in feeds : i <= j
                  IN  <<SubSeq(text, 1, i - 1)>> \o
                      lines(SubSeq(text, i + 1, Len(text)))

\* [&str]::join
RECURSIVE join(_, _)
join(strs, sep) ==
    IF strs = <<>>
    THEN <<>>
    ELSE IF Len(strs) = 1
         THEN strs[1]
         ELSE strs[1] \o sep \o join(Tail(strs), sep)

\* slice.get(start..end): None unless start <= end <= len
slice_get(slice, start, end) ==
    IF start > end \/ end > Len(slice)
    THEN None
    ELSE Some(SubSeq(slice, start + 1, end))

\* a handler (or something it called) has panicked
Panicked == <<"Panicked">>

\* Vec::splice(start..end, new) panics unless start <= end <= len
splice_panics(vec, start, end) ==
    start > end \/ end > Len(vec)

\* Vec::splice(start..end, new)
splice(vec, start, end, new_elems) ==
    SubSeq(vec, 1, start) \o new_elems \o SubSeq(vec, end + 1, Len(vec))

\* the content changes an editor may send with didChange: none, the whole
\* text, or the replacement of the first line
ContentChanges ==
    {<<>>} \cup
    {<<[range |-> None, range_length |-> None, text |-> t]>> : t \in Texts} \cup
    {<<[range |-> Some(r), range_length |-> None, text |-> <<"a">>]>> :
        r \in {q \in Ranges : q.start.line = 0 /\ q.end.line = 1}}

\* one round of the loop of reload_source panics
reload_change_panics(source, change) ==
    /\ ~(change.range = None /\ change.range_length = None)
    /\ change.range # None
    /\ splice_panics(lines(source), unwrap(change.range).start.line,
                     unwrap(change.range).end.line)

\* one round of the loop of reload_source over a change
reload_change(source, change) ==
    IF change.range = None /\ change.range_length = None
    THEN change.text
    ELSE IF change.range # None
         THEN join(splice(lines(source),
                          unwrap(change.range).start.line,
                          unwrap(change.range).end.line,
                          lines(change.text)),
                   <<"\n">>)
         ELSE source

RECURSIVE reload_changes_panic(_, _)
reload_changes_panic(source, changes) ==
    IF changes = <<>>
    THEN FALSE
    ELSE IF reload_change_panics(source, Head(changes))
         THEN TRUE
         ELSE reload_changes_panic(reload_change(source, Head(changes)),
                                   Tail(changes))

RECURSIVE reload_changes(_, _)
reload_changes(source, changes) ==
    IF changes = <<>>
    THEN source
    ELSE reload_changes(reload_change(source, Head(changes)), Tail(changes))

\* State::reload_source (called from nowhere) panics: the uri is not tracked
\* or a splice is out of range
reload_source_panics(srcs, document, changes) ==
    IF document.uri \in DOMAIN srcs
    THEN reload_changes_panic(srcs[document.uri], changes)
    ELSE TRUE

\* State::reload_source (called from nowhere)
reload_source(srcs, document, changes) ==
    HashMap_insert(srcs, document.uri,
                   reload_changes(srcs[document.uri], changes))

\* an extraction whose end line is included
get_source_range_inclusive(srcs, document_uri, range) ==
    IF document_uri \in DOMAIN srcs
    THEN LET range_lines == slice_get(lines(srcs[document_uri]),
                                      range.start.line, range.end.line + 1)
         IN  IF range_lines = None
             THEN None
             ELSE Some(join(unwrap(range_lines), <<"\n">>))
    ELSE None

\* an extraction that indexes the lines (&lines[start..end]), which panics
\* where get returns None
get_source_range_index(srcs, document_uri, range) ==
    IF document_uri \in DOMAIN srcs
    THEN LET range_lines == slice_get(lines(srcs[document_uri]),
                                      range.start.line, range.end.line)
         IN  IF range_lines = None
             THEN Panicked
             ELSE Some(join(unwrap(range_lines), <<"\n">>))
    ELSE None

\* State::get_source_range; usize::try_from of a u32 line cannot fail
get_source_range(srcs, document_uri, range) ==
    IF document_uri \in DOMAIN srcs
    THEN LET range_lines == slice_get(lines(srcs[document_uri]),
                                      range.start.line, range.end.line)
         IN  IF range_lines = None
             THEN None
             ELSE Some(join(unwrap(range_lines), <<"\n">>))
    ELSE None

\* enum AiCodeAction
AiCodeAction ==
    {"Instruct", "Document", "Fix", "Optimize", "Suggest", "FillInMiddle", "Test"}

\* AiCodeAction::label
label(code_action) ==
    CASE code_action = "Instruct"     -> "Acai - Instruct"
      [] code_action = "Document"     -> "Acai - Document"
      [] code_action = "Fix"          -> "Acai - Fix"
      [] code_action = "Optimize"     -> "Acai - Optimize"
      [] code_action = "Suggest"      -> "Acai - Suggest"
      [] code_action = "FillInMiddle" -> "Acai - Fill in middle"
      [] code_action = "Test"         -> "Acai - Test"

\* identifiers in lower case throughout
identifier_lowercase(code_action) ==
    CASE code_action = "Instruct"     -> "ai.instruct"
      [] code_action = "Document"     -> "ai.document"
      [] code_action = "Fix"          -> "ai.fix"
      [] code_action = "Optimize"     -> "ai.optimize"
      [] code_action = "Suggest"      -> "ai.suggest"
      [] code_action = "FillInMiddle" -> "ai.fillinmiddle"
      [] code_action = "Test"         -> "ai.test"

\* AiCodeAction::identifier
identifier(code_action) ==
    CASE code_action = "Instruct"     -> "ai.instruct"
      [] code_action = "Document"     -> "ai.document"
      [] code_action = "Fix"          -> "ai.fix"
      [] code_action = "Optimize"     -> "ai.optimize"
      [] code_action = "Suggest"      -> "ai.suggest"
      [] code_action = "FillInMiddle" -> "ai.fillInMiddle"
      [] code_action = "Test"         -> "ai.test"

\* AiCodeAction::all
all ==
    <<"Instruct", "Document", "Fix", "Optimize", "Suggest", "FillInMiddle", "Test">>

\* a decoder that takes an unknown name for the action that does nothing
from_str_lenient(name) ==
    CASE name = "ai.instruct"     -> Ok("Instruct")
      [] name = "ai.document"     -> Ok("Document")
      [] name = "ai.fix"          -> Ok("Fix")
      [] name = "ai.optimize"     -> Ok("Optimize")
      [] name = "ai.suggest"      -> Ok("Suggest")
      [] name = "ai.fillInMiddle" -> Ok("FillInMiddle")
      [] OTHER                    -> Ok("Test")

\* impl FromStr for AiCodeAction
from_str(name) ==
    CASE name = "ai.instruct"     -> Ok("Instruct")
      [] name = "ai.document"     -> Ok("Document")
      [] name = "ai.fix"          -> Ok("Fix")
      [] name = "ai.optimize"     -> Ok("Optimize")
      [] name = "ai.suggest"      -> Ok("Suggest")
      [] name = "ai.fillInMiddle" -> Ok("FillInMiddle")
      [] name = "ai.test"         -> Ok("Test")
      [] OTHER                    -> Err(<<"Invalid command ", name>>)

\* the ids a descriptor sent by an editor may carry: the catalog's and one
\* that is not in the catalog
ActionIds == {identifier(a) : a \in AiCodeAction} \cup {"ai.unknown"}

\* struct CodeActionData, as the JSON object it serializes to
CodeActionData == [id : ActionIds, document_uri : Uris, range : Ranges]

\* a JSON object that is not a CodeActionData: document_uri and range missing
MalformedData == [id |-> "ai.fix"]

\* serde_json::from_value::<CodeActionData>
from_value(json_obj) ==
    IF DOMAIN json_obj = {"id", "document_uri", "range"}
    THEN Ok(json_obj)
    ELSE Err(<<"missing field document_uri">>)

\* the CodeAction on_code_action builds for one catalog entry
CodeAction(code_action, document_uri, range) ==
    [title        |-> label(code_action),
     command      |-> None,
     diagnostics  |-> None,
     edit         |-> None,
     disabled     |-> None,
     kind         |-> Some("quickfix"),
     is_preferred |-> Some(TRUE),
     data         |-> Some([id           |-> identifier(code_action),
                            document_uri |-> document_uri,
                            range        |-> range])]

\* an offer that depends on the diagnostics: Fix is left out when there is
\* nothing to fix
on_code_action_by_diagnostics(params) ==
    LET offered == IF params.context.diagnostics = <<>>
                   THEN SelectSeq(all, LAMBDA a : a # "Fix")
                   ELSE all
    IN  [i \in 1..Len(offered) |->
            CodeAction(offered[i], params.text_document.uri, params.range)]

\* Backend::on_code_action
on_code_action(params) ==
    [i \in 1..Len(all) |->
        CodeAction(all[i], params.text_document.uri, params.range)]

\* an edit an editor may send along with the action it asks to resolve: one
\* text edit in each of two documents
TwoDocumentEdit ==
    [changes            |-> Some([u \in Uris |->
                                    <<[range    |-> [start |-> [line |-> 0, character |-> 0],
                                                     end   |-> [line |-> 0, character |-> 0]],
                                       new_text |-> <<"a">>]>>]),
     document_changes   |-> None,
     change_annotations |-> None]

\* a descriptor whose id is not in the catalog
UnknownAction(document_uri, range) ==
    [title        |-> "Acai",
     command      |-> None,
     diagnostics  |-> None,
     edit         |-> None,
     disabled     |-> None,
     kind         |-> Some("quickfix"),
     is_preferred |-> Some(TRUE),
     data         |-> Some([id           |-> "ai.unknown",
                            document_uri |-> document_uri,
                            range        |-> range])]

\* the descriptors an editor got from codeAction and sends back unmodified
OfferedActions ==
    {CodeAction(a, u, r) : a \in AiCodeAction, u \in Uris, r \in Ranges}

\* the ranges that start and end on the same line
PointRanges == {r \in Ranges : r.start.line = r.end.line}

\* the actions an editor may ask to resolve: an offered descriptor (of every
\* range for Fix and FillInMiddle, of the ranges within a line for the
\* others), one of an unknown id, one with malformed data, one without data,
\* and each of these (for the range at the start of the document) with an
\* edit already in it
ResolveParams ==
    LET plain == {a \in OfferedActions :
                     \/ a.title \in {label("Fix"), label("FillInMiddle")}
                     \/ unwrap(a.data).range \in PointRanges} \cup
                 {UnknownAction(u, r) : u \in Uris, r \in PointRanges} \cup
                 {[UnknownAction("file:///a.rs", CHOOSE r \in Ranges : TRUE) EXCEPT !.data = d] :
                     d \in {None, Some(MalformedData)}}
        first == {a \in plain :
                     \/ a.data = None
                     \/ DOMAIN unwrap(a.data) # {"id", "document_uri", "range"}
                     \/ unwrap(a.data).range.end.line = 0}
    IN  plain \cup {[a EXCEPT !.edit = Some(TwoDocumentEdit)] : a \in first}

\* the diagnostics an editor may send with codeAction
Diagnostics == {<<>>, <<"E0308">>}

\* what the provider answers an operation that asks it: a reply, no reply, or
\* an error
OperationOutcomes ==
    {Ok(Some([content |-> <<"X">>])), Ok(None), Err(<<"request failed">>)}

\* an operation that asks the provider even with nothing to say
chat_asks_always(code_action, ctx) ==
    TRUE

\* Suggest::send (and Instruct::send, Document::send, Fix::send,
\* Optimize::send after it) asks the provider: only when it has a prompt or a
\* context, and the handlers give no prompt
chat_asks(code_action, ctx) ==
    ctx # None

\* Suggest::send (and Instruct::send, .. after it): what the operation returns
chat_send(code_action, ctx, outcome) ==
    IF chat_asks(code_action, ctx)
    THEN outcome
    ELSE Ok(None)

\* Complete::send asks the provider: only when it has a context
Complete_asks(ctx) ==
    ctx # None

\* execute_operation, for an id of the catalog, asks the provider
execute_operation_asks(op_title, ctx) ==
    LET code_action == from_str(op_title)[2]
    IN  IF code_action = "Test"
        THEN FALSE
        ELSE IF code_action = "FillInMiddle"
             THEN Complete_asks(ctx)
             ELSE chat_asks(code_action, ctx)

\* an execute_operation that sends an operation only when it has a context
execute_operation_sends_with_context(op_title, ctx) ==
    LET code_action == from_str(op_title)[2]
    IN  IF code_action = "Test" \/ ctx = None
        THEN Nothing
        ELSE [operation |-> code_action, context |-> ctx]

\* execute_operation, for an id of the catalog: the operation it sends, with
\* its context, or Nothing
execute_operation_sends(op_title, ctx) ==
    LET code_action == from_str(op_title)[2]
    IN  IF code_action = "Test"
        THEN Nothing
        ELSE [operation |-> code_action, context |-> ctx]

\* execute_operation panics: from_str(..).unwrap() of an id not in the catalog
execute_operation_panics(op_title) ==
    from_str(op_title)[1] = "Err"

\* an execute_operation that has the provider write the tests
execute_operation_generates_tests(op_title, ctx, outcome) ==
    LET code_action == from_str(op_title)[2]
    IN  IF code_action = "FillInMiddle"
        THEN LET resp == Complete_send_returned(ctx, outcome)
             IN  IF resp[1] = "Ok" /\ resp[2] # None
                 THEN Some(unwrap(resp[2]))
                 ELSE None
        ELSE IF outcome[1] = "Ok" /\ outcome[2] # None
             THEN Some(unwrap(outcome[2]).content)
             ELSE None

\* execute_operation, for an id of the catalog
execute_operation(op_title, ctx, outcome) ==
    LET code_action == from_str(op_title)[2]
    IN  IF code_action = "Test"
        THEN None
        ELSE IF code_action = "FillInMiddle"
             THEN LET resp == Complete_send_returned(ctx, outcome)
                  IN  IF resp[1] = "Ok" /\ resp[2] # None
                      THEN Some(unwrap(resp[2]))
                      ELSE None
             ELSE LET res == chat_send(code_action, ctx, outcome)
                  IN  IF res[1] = "Ok" /\ res[2] # None
                      THEN Some(unwrap(res[2]).content)
                      ELSE None

\* an edit that inserts the text at the start of the range and keeps what
\* the range covers
WorkspaceEdit_insert(document_uri, range, str_edit) ==
    [changes            |-> Some([u \in {document_uri} |->
                                    <<[range    |-> [start |-> range.start,
                                                     end   |-> range.start],
                                       new_text |-> str_edit]>>]),
     document_changes   |-> None,
     change_annotations |-> None]

\* WorkspaceEdit with one TextEdit for the document
WorkspaceEdit(document_uri, range, str_edit) ==
    [changes            |-> Some([u \in {document_uri} |->
                                    <<[range |-> range, new_text |-> str_edit]>>]),
     document_changes   |-> None,
     change_annotations |-> None]

\* u32::MAX.  TLC's integers end at 2^31 - 1, which stands for it here: the
\* wrapped differences keep their order and stay above every line number.
U32_MAX == 2147483647

\* a - b on u32 without overflow checks
wrapping_sub(a, b) ==
    IF a >= b THEN a - b ELSE U32_MAX - (b - a) + 1

\* std::cmp::max
max(a, b) ==
    IF a >= b THEN a ELSE b

InitLsp ==
    /\ env = FullEnv
    /\ InitNoSession
    /\ InitOperation
    /\ InitBackend

\* textDocument/didOpen
did_open(params) ==
    /\ server = "running"
    /\ call = NoCall
    /\ sources' = insert_source(sources, params.text_document)
    /\ call' = [method |-> "did_open", params |-> params]
    /\ context' = Unset
    /\ reply' = Unset
    /\ UNCHANGED <<session, env, tasks, lock, input, output, server>>

\* a didChange that applies the content changes to the store
did_change_reload(params) ==
    /\ server = "running"
    /\ call = NoCall
    /\ IF reload_source_panics(sources, params.text_document, params.content_changes)
       THEN /\ server' = "panicked"
            /\ UNCHANGED sources
       ELSE /\ sources' = reload_source(sources, params.text_document,
                                        params.content_changes)
            /\ UNCHANGED server
    /\ call' = [method |-> "did_change", params |-> params]
    /\ context' = Unset
    /\ reply' = Unset
    /\ UNCHANGED <<session, env, tasks, lock, input, output>>

\* textDocument/didChange: the call of reload_source is commented out
did_change(params) ==
    /\ server = "running"
    /\ call = NoCall
    /\ call' = [method |-> "did_change", params |-> params]
    /\ context' = Unset
    /\ reply' = Unset
    /\ UNCHANGED <<session, env, tasks, lock, input, output, sources, server>>

\* textDocument/didSave
did_save(params) ==
    /\ server = "running"
    /\ call = NoCall
    /\ sources' = update_source(sources, params.text_document, params.text)
    /\ call' = [method |-> "did_save", params |-> params]
    /\ context' = Unset
    /\ reply' = Unset
    /\ UNCHANGED <<session, env, tasks, lock, input, output, server>>

\* a didClose that forgets the document
did_close_remove(params) ==
    /\ server = "running"
    /\ call = NoCall
    /\ sources' = [u \in DOMAIN sources \ {params.text_document.uri} |-> sources[u]]
    /\ call' = [method |-> "did_close", params |-> params]
    /\ context' = Unset
    /\ reply' = Unset
    /\ UNCHANGED <<session, env, tasks, lock, input, output, server>>

\* textDocument/didClose
did_close(params) ==
    /\ server = "running"
    /\ call = NoCall
    /\ call' = [method |-> "did_close", params |-> params]
    /\ context' = Unset
    /\ reply' = Unset
    /\ UNCHANGED <<session, env, tasks, lock, input, output, sources, server>>

\* textDocument/codeAction
code_action(params) ==
    /\ server = "running"
    /\ call = NoCall
    /\ call' = [method |-> "code_action", params |-> params]
    /\ context' = Unset
    /\ reply' = Ok(Some(on_code_action(params)))
    /\ UNCHANGED <<session, env, tasks, lock, input, output, sources, server>>

\* codeAction/resolve: Backend::on_code_action_resolve; outcome is what the
\* provider answers if the operation asks it
code_action_resolve(params, outcome) ==
    /\ server = "running"
    /\ call = NoCall
    /\ call' = [method |-> "code_action_resolve", params |-> params]
    /\ LET code_action_data ==
               IF params.data = None
               THEN None
               ELSE Some(from_value(unwrap(params.data)))
       IN  IF code_action_data = None \/ unwrap(code_action_data)[1] = "Err"
           THEN /\ context' = Unset
                /\ reply' = Ok(params)
                /\ UNCHANGED <<server, input, output>>
           ELSE LET cad == unwrap(code_action_data)[2]
                    ctx == get_source_range(sources, cad.document_uri, cad.range)
                IN  /\ context' = ctx
                    /\ IF ctx = Panicked \/ execute_operation_panics(cad.id)
                       THEN /\ server' = "panicked"
                            /\ reply' = Unset
                            /\ UNCHANGED <<input, output>>
                       ELSE LET resp == execute_operation(cad.id, ctx, outcome)
                            IN  /\ input' = execute_operation_sends(cad.id, ctx)
                                /\ output' = [asked    |-> execute_operation_asks(cad.id, ctx),
                                              response |-> resp]
                                /\ reply' =
                                       IF resp # None
                                       THEN Ok([params EXCEPT !.edit =
                                                   Some(WorkspaceEdit(cad.document_uri,
                                                                      cad.range,
                                                                      unwrap(resp)))])
                                       ELSE Ok(params)
                                /\ UNCHANGED server
    /\ UNCHANGED <<session, env, tasks, lock, sources>>

\* completion: position.line - 3 panics in a build that checks integer
\* overflow when the line is below 3
completion_range_panics(position, overflow_checks) ==
    position.line < 3 /\ overflow_checks

\* completion: the range it extracts, from max(position.line - 3, 0) to the
\* position, the subtraction wrapping
completion_range(position) ==
    [start |-> [line |-> max(wrapping_sub(position.line, 3), 0), character |-> 0],
     end   |-> position]

\* textDocument/completion; overflow_checks tells whether the build checks
\* integer overflow (it panics on position.line - 3 below 0) or wraps
completion(params, overflow_checks, outcome) ==
    /\ server = "running"
    /\ call = NoCall
    /\ IF completion_range_panics(params.position, overflow_checks)
       THEN /\ call' = [method |-> "completion", params |-> params, range |-> None]
            /\ server' = "panicked"
            /\ context' = Unset
            /\ reply' = Unset
            /\ UNCHANGED <<input, output>>
       ELSE LET range == completion_range(params.position)
                ctx   == get_source_range(sources, params.text_document.uri, range)
            IN  /\ call' = [method |-> "completion", params |-> params,
                            range |-> Some(range)]
                /\ context' = ctx
                /\ IF ctx = Panicked \/ ctx = None
                   THEN /\ server' = "panicked"
                        /\ reply' = Unset
                        /\ UNCHANGED <<input, output>>
                   ELSE LET resp == Complete_send_returned(ctx, outcome)
                            msg  == IF resp[1] = "Ok" THEN resp[2] ELSE None
                        IN  /\ input' = [operation |-> "Complete", context |-> ctx]
                            /\ output' = [asked    |-> Complete_asks(ctx),
                                          response |-> msg]
                            /\ IF msg # None
                               THEN /\ reply' = Ok(Some(<<[label  |-> unwrap(msg),
                                                           detail |-> Some(unwrap(msg))]>>))
                                    /\ UNCHANGED server
                               ELSE /\ server' = "panicked"
                                    /\ reply' = Unset
    /\ UNCHANGED <<session, env, tasks, lock, sources>>

\* the handler returns: its parameters and locals are dropped and the server
\* takes the next message
handler_return ==
    /\ server = "running"
    /\ call # NoCall
    /\ call' = NoCall
    /\ context' = Unset
    /\ reply' = Unset
    /\ input' = Nothing
    /\ output' = Nothing
    /\ UNCHANGED <<session, env, tasks, lock, sources, server>>

\* the server is up and no handler is running
Ready ==
    /\ server = "running"
    /\ call = NoCall

NextLsp ==
    \/ /\ Ready
       /\ \E params \in [text_document : [uri : Uris, text : Texts]] :
              did_open(params)
    \/ /\ Ready
       /\ \E params \in [text_document : [uri : Uris],
                          content_changes : ContentChanges] :
              did_change(params)
    \/ /\ Ready
       /\ \E params \in [text_document : [uri : Uris],
                          text : {None} \cup {Some(t) : t \in Texts}] :
              did_save(params)
    \/ /\ Ready
       /\ \E params \in [text_document : [uri : Uris]] :
              did_close(params)
    \/ /\ Ready
       /\ \E params \in [text_document : [uri : Uris], range : Ranges,
                          context : [diagnostics : Diagnostics]] :
              code_action(params)
    \/ /\ Ready
       /\ \E params \in ResolveParams, outcome \in OperationOutcomes :
              code_action_resolve(params, outcome)
    \/ /\ Ready
       /\ \E params \in [text_document : [uri : Uris], position : Positions],
             overflow_checks \in BOOLEAN, outcome \in OperationOutcomes :
              completion(params, overflow_checks, outcome)
    \/ handler_return

SpecLsp == InitLsp /\ [][NextLsp]_vars

\* ---------------------------------------------------------------------------
\* Claims about the document store
\* ---------------------------------------------------------------------------

\* the store s2 is the store s1 with uri mapped to text and nothing else
\* touched
StoredOnly(s1, s2, uri, text) ==
    /\ DOMAIN s2 = DOMAIN s1 \cup {uri}
    /\ s2[uri] = text
    /\ \A u \in DOMAIN s1 \ {uri} : s2[u] = s1[u]

\* C15: didOpen never overwrites: in any state in which uri u is tracked, a
\* didOpen for u (with any text) leaves the store as it is, so the stored text
\* of u stays; a didOpen for an untracked uri stores the given text and
\* touches no other entry.
C15_OpenNeverOverwrites ==
    [][(call = NoCall /\ call'.method = "did_open") =>
          LET document == call'.params.text_document
          IN  /\ document.uri \in DOMAIN sources => sources' = sources
              /\ document.uri \notin DOMAIN sources =>
                     StoredOnly(sources, sources', document.uri, document.text)]_vars

\* a didOpen for a tracked uri with another text has been handled and the
\* stored text is still the old one
C15_Witness ==
    /\ call.method = "did_open"
    /\ call.params.text_document.uri \in DOMAIN sources
    /\ call.params.text_document.text = <<"a">>
    /\ sources[call.params.text_document.uri] = <<"\n", "a">>

\* C16: didSave with a text sets the stored text of the uri to that text,
\* whether or not the uri was tracked and whatever it held, and touches no
\* other entry; didSave without a text leaves the whole store unchanged.
C16_SaveReplaces ==
    [][(call = NoCall /\ call'.method = "did_save") =>
          LET params == call'.params
          IN  /\ params.text # None =>
                     StoredOnly(sources, sources', params.text_document.uri,
                                unwrap(params.text))
              /\ params.text = None => sources' = sources]_vars

\* a didSave with a text has been handled: the store holds that text for the
\* uri, and no other entry
C16_Witness ==
    /\ call.method = "did_save"
    /\ call.params.text = Some(<<"a", "\n">>)
    /\ DOMAIN sources = {call.params.text_document.uri}
    /\ sources[call.params.text_document.uri] = <<"a", "\n">>

\* the descriptor data of the codeAction/resolve being handled
ResolvedData == unwrap(call.params.data)

\* a codeAction/resolve has extracted a range of a document
Extracting ==
    /\ call.method = "code_action_resolve"
    /\ context # Unset

\* C17: the extraction of (uri, range) is None when uri is untracked; for a
\* tracked document of N lines and 0 <= start.line <= end.line <= N it is
\* exactly the lines start.line .. end.line - 1 (counted from 0), in order,
\* joined by single line feeds.
C17_ExtractRange ==
    Extracting =>
        LET uri == ResolvedData.document_uri
            s   == ResolvedData.range.start.line
            e   == ResolvedData.range.end.line
        IN  /\ uri \notin DOMAIN sources => context = None
            /\ uri \in DOMAIN sources =>
                   LET ls == lines(sources[uri])
                   IN  (s <= e /\ e <= Len(ls)) =>
                          /\ context # None
                          /\ context # Panicked
                          /\ context = Some(join([i \in 1..(e - s) |-> ls[s + i]],
                                                 <<"\n">>))

\* both lines of the document "a\n\n" (the line "a" and an empty line) were
\* extracted as "a\n"
C17_Witness ==
    /\ Extracting
    /\ ResolvedData.document_uri \in DOMAIN sources
    /\ sources[ResolvedData.document_uri] = <<"a", "\n", "\n">>
    /\ ResolvedData.range.start.line = 0
    /\ ResolvedData.range.end.line = 2
    /\ context = Some(<<"a", "\n">>)

\* C18: extraction never panics on a range that is out of bounds: for a
\* tracked document of N lines and a range whose end line exceeds N, whose
\* start line exceeds N, or whose start line exceeds its end line, the result
\* is None or the text of the range clamped to the document, and the handler
\* goes on (it panics only for an action id outside the catalog).
C18_ExtractRangeNoPanic ==
    (Extracting /\ ResolvedData.document_uri \in DOMAIN sources) =>
        LET ls == lines(sources[ResolvedData.document_uri])
            s  == ResolvedData.range.start.line
            e  == ResolvedData.range.end.line
            lo == IF s <= Len(ls) THEN s ELSE Len(ls)
            hi == IF e <= Len(ls) THEN e ELSE Len(ls)
        IN  (e > Len(ls) \/ s > Len(ls) \/ s > e) =>
               /\ context # Panicked
               /\ \/ context = None
                  \/ context = Some(join(SubSeq(ls, lo + 1, hi), <<"\n">>))
               /\ ResolvedData.id # "ai.unknown" => server = "running"

\* a range ending past the last line of a tracked one-line document was
\* asked for, None came back and the server is up
C18_Witness ==
    /\ Extracting
    /\ ResolvedData.document_uri \in DOMAIN sources
    /\ sources[ResolvedData.document_uri] = <<"a">>
    /\ ResolvedData.range.start.line = 0
    /\ ResolvedData.range.end.line = 2
    /\ context = None
    /\ server = "running"

\* C19: no document entry is ever deleted: whatever the handler (didOpen,
\* didSave, didChange, didClose, codeAction, codeAction/resolve, completion), a
\* uri tracked before a step is tracked after it.
C19_NoEntryDeleted ==
    [][DOMAIN sources \subseteq DOMAIN sources']_vars

\* a didClose for a tracked uri has been handled and the uri is still tracked
C19_Witness ==
    /\ call.method = "did_close"
    /\ call.params.text_document.uri \in DOMAIN sources

\* C20: only didOpen and didSave change stored text: a didChange (with any
\* content changes, for a tracked or an untracked uri) and a didClose leave
\* every entry unchanged, so every range extracted afterwards is what it was
\* before; a step that changes the store is a didOpen or a didSave.
C20_OnlyOpenSaveChangeText ==
    [][/\ (call = NoCall /\ call'.method \in {"did_change", "did_close"}) =>
              /\ sources' = sources
              /\ \A u \in Uris, r \in Ranges :
                     get_source_range(sources', u, r) = get_source_range(sources, u, r)
       /\ sources' # sources => call'.method \in {"did_open", "did_save"}]_vars

\* a didChange replacing the whole text of a tracked document has been handled
\* and the stored text is still another one
C20_Witness ==
    /\ call.method = "did_change"
    /\ call.params.content_changes =
           <<[range |-> None, range_length |-> None, text |-> <<"a", "a">>]>>
    /\ call.params.text_document.uri \in DOMAIN sources
    /\ sources[call.params.text_document.uri] = <<"\n">>

\* ---------------------------------------------------------------------------
\* the code actions

\* the identifiers of the catalog in the order of the offer
CatalogIdentifiers ==
    <<"ai.instruct", "ai.document", "ai.fix", "ai.optimize", "ai.suggest",
      "ai.fillInMiddle", "ai.test">>

\* the answer to the codeAction request being handled is the full catalog for
\* the requested document and range
OfferedCatalog ==
    /\ reply[1] = "Ok"
    /\ reply[2][1] = "Some"
    /\ LET offered == reply[2][2]
       IN  /\ Len(offered) = 7
           /\ \A i \in 1..7 :
                  offered[i].data =
                      Some([id           |-> CatalogIdentifiers[i],
                            document_uri |-> call.params.text_document.uri,
                            range        |-> call.params.range])

\* C21: codeAction answers exactly seven descriptors, one per catalog entry in
\* the order Instruct, Document, Fix, Optimize, Suggest, FillInMiddle, Test,
\* each with the payload {identifier, requested uri, requested range},
\* whatever the diagnostics and whether or not the document is tracked, and
\* it leaves the document store as it was
C21_OfferIsTheCatalog ==
    [][call'.method = "code_action" => OfferedCatalog' /\ sources' = sources]_vars

C21_Witness ==
    /\ call.method = "code_action"
    /\ call.params.context.diagnostics = <<>>
    /\ call.params.text_document.uri \notin DOMAIN sources
    /\ sources # <<>>
    /\ Len(reply[2][2]) = 7
    /\ reply[2][2][7].data = Some([id           |-> "ai.test",
                                   document_uri |-> call.params.text_document.uri,
                                   range        |-> call.params.range])

\* the codeAction/resolve being handled has decoded its descriptor
Resolving ==
    /\ call.method = "code_action_resolve"
    /\ call.params.data # None
    /\ from_value(ResolvedData)[1] = "Ok"

\* C22: resolving the Test descriptor, for any uri, range and document store,
\* answers the action with the edit it came with, sends no operation and
\* asks the provider nothing
C22_TestIsNoOp ==
    Resolving /\ ResolvedData.id = "ai.test"
        => /\ reply = Ok(call.params)
           /\ input = Nothing
           /\ output.asked = FALSE
           /\ output.response = None

C22_Witness ==
    /\ Resolving
    /\ ResolvedData.id = "ai.test"
    /\ ResolvedData.document_uri \in DOMAIN sources
    /\ context # None
    /\ call.params.edit = None
    /\ reply = Ok(call.params)

\* the identifiers of the catalog but the one of Test
OperationIdentifiers ==
    {"ai.instruct", "ai.document", "ai.fix", "ai.optimize", "ai.suggest",
     "ai.fillInMiddle"}

C23_WitnessUntracked ==
    /\ Resolving
    /\ ResolvedData.id = "ai.fillInMiddle"
    /\ ResolvedData.document_uri \notin DOMAIN sources
    /\ context = None
    /\ input = [operation |-> "FillInMiddle", context |-> None]

\* C24: when the operation of a resolved action produces a text, the answer
\* is the incoming action with an edit of exactly one text edit, on the
\* descriptor's document, over the descriptor's range, whose new text is that
\* text; when the operation produces nothing (no text, or the request to the
\* provider failed) the answer is the incoming action as it came, and the
\* request does not fail
C24_EditIsTheReply ==
    Resolving /\ server = "running"
        => /\ reply[1] = "Ok"
           /\ IF output.response # None
              THEN LET edit == unwrap(reply[2].edit)
                       changes == unwrap(edit.changes)
                   IN  /\ reply[2] = [call.params EXCEPT !.edit = Some(edit)]
                       /\ DOMAIN changes = {ResolvedData.document_uri}
                       /\ changes[ResolvedData.document_uri] =
                              <<[range    |-> ResolvedData.range,
                                 new_text |-> unwrap(output.response)]>>
                       /\ edit.document_changes = None
                       /\ edit.change_annotations = None
              ELSE reply[2] = call.params

\* a reply of the provider has become the edit
C24_Witness ==
    /\ Resolving
    /\ ResolvedData.id = "ai.fix"
    /\ ResolvedData.range.start.line < ResolvedData.range.end.line
    /\ output.asked
    /\ output.response = Some(<<"X">>)
    /\ unwrap(unwrap(reply[2].edit).changes)[ResolvedData.document_uri][1].new_text = <<"X">>

\* the request to the provider failed or brought no text
C24_WitnessNone ==
    /\ Resolving
    /\ ResolvedData.id = "ai.optimize"
    /\ output.asked
    /\ output.response = None
    /\ reply = Ok(call.params)

\* C25: every answer to codeAction/resolve carries an edit touching exactly
\* one document with zero or one text edit (an answer without an edit counted
\* as one with zero text edits), for every incoming action, with or without
\* data and with or without an edit already in it, and every outcome of the
\* operation
C25_OneDocumentEdit ==
    call.method = "code_action_resolve" /\ reply # Unset
        => /\ reply[1] = "Ok"
           /\ \/ reply[2].edit = None
              \/ LET changes == unwrap(unwrap(reply[2].edit).changes)
                 IN  /\ Cardinality(DOMAIN changes) = 1
                     /\ \A u \in DOMAIN changes : Len(changes[u]) <= 1

\* where it does hold: the operation produced a text
C25_Replaced ==
    Resolving /\ server = "running" /\ output.response # None
        => LET changes == unwrap(unwrap(reply[2].edit).changes)
           IN  /\ Cardinality(DOMAIN changes) = 1
               /\ \A u \in DOMAIN changes : Len(changes[u]) = 1

\* C26: in codeAction/resolve a descriptor whose id is none of the seven
\* identifiers of the catalog is fatal: decoding the id fails and the handler
\* aborts, answering neither an action nor an error
C26_UnknownIdAborts ==
    Resolving /\ ResolvedData.id \notin {CatalogIdentifiers[i] : i \in DOMAIN CatalogIdentifiers}
        => /\ server = "panicked"
           /\ reply = Unset

\* the range was fetched before the handler aborted
C26_Witness ==
    /\ Resolving
    /\ ResolvedData.id = "ai.unknown"
    /\ ResolvedData.document_uri \in DOMAIN sources
    /\ context # None
    /\ context # Unset
    /\ server = "panicked"
    /\ reply = Unset

\* C30: decoding the identifier of each of the seven actions of the catalog
\* gives the action back, and the seven identifiers are pairwise distinct;
\* hence resolving a descriptor that codeAction offered, sent back as it
\* was, never aborts on decoding its id
C30_IdentifierRoundTrip ==
    /\ \A a \in AiCodeAction : from_str(identifier(a)) = Ok(a)
    /\ \A a, b \in AiCodeAction : a # b => identifier(a) # identifier(b)
    /\ call.method = "code_action" /\ reply # Unset
           => \A i \in 1..Len(reply[2][2]) :
                  /\ reply[2][2][i] \in OfferedActions
                  /\ from_str(unwrap(reply[2][2][i].data).id) = Ok(all[i])
    /\ call.method = "code_action_resolve" /\ call.params \in OfferedActions
           => /\ server = "running"
              /\ reply[1] = "Ok"
              /\ output # Nothing

C30_Witness ==
    /\ call.method = "code_action_resolve"
    /\ call.params \in OfferedActions
    /\ ResolvedData.id = "ai.fillInMiddle"
    /\ input = [operation |-> "FillInMiddle", context |-> context]
    /\ server = "running"

\* ---------------------------------------------------------------------------
\* the history of a session over failed sends

\* msgs starts with head
IsPrefix(head, msgs) ==
    /\ Len(head) <= Len(msgs)
    /\ SubSeq(msgs, 1, Len(head)) = head

\* the messages a request carries in its body
RequestMessages(r) ==
    LET body == Fields(r.body)
    IN  IF "messages" \in DOMAIN body
        THEN Elements(body.messages)
        ELSE IF "contents" \in DOMAIN body
             THEN Elements(body.contents)
             ELSE <<>>

\* the request carries m as its element i
CarriesAt(r, i, m) ==
    \/ RequestMessages(r)[i] = Serialize_Message(m)
    \/ RequestMessages(r)[i] = Instruction_from(m)

\* the request ends with the two messages, one after the other
CarriesLastTwo(r, m1, m2) ==
    LET n == Len(RequestMessages(r))
    IN  /\ n >= 2
        /\ CarriesAt(r, n - 1, m1)
        /\ CarriesAt(r, n, m2)

\* send_message returns an error: the history is what it was before the call
\* and the message sent
FailedSendKeepsMessage ==
    pc = "awaiting" /\ pc' = "idle" /\ result'[1] = "Err"
        => self'.messages = before \o <<unwrap(arg)>>

\* send_message is called after a send_message that returned an error: the
\* history ends with the two messages of the caller
SendAfterFailedSend ==
    pc = "idle" /\ result[1] = "Err" /\ pc' = "awaiting"
        => self'.messages = before \o <<unwrap(arg), unwrap(arg')>>

\* C28: send_message never rolls back and the history is only appended to:
\* after a send_message(m) that returns an error (the transport failed, the
\* status is no success, or the body does not decode) the stored history is
\* the previous history followed by m, with no assistant message; in every
\* step the previous history stays a prefix; so a failed send followed by a
\* later send leaves the two messages of the caller, one after the other, in
\* the history and in the next request
C28_AppendOnlyHistoryAndRequest ==
    [][/\ IsPrefix(self.messages, self'.messages)
       /\ FailedSendKeepsMessage
       /\ SendAfterFailedSend
       /\ pc = "idle" /\ result[1] = "Err" /\ pc' = "awaiting"
              => CarriesLastTwo(request', unwrap(arg), unwrap(arg'))]_vars

\* what holds of it: the history, for every provider, and the request of
\* every provider but Mistral
C28_AppendOnlyHistory ==
    [][/\ IsPrefix(self.messages, self'.messages)
       /\ FailedSendKeepsMessage
       /\ SendAfterFailedSend
       /\ pc = "idle" /\ result[1] = "Err" /\ pc' = "awaiting"
                /\ self.provider # "Mistral"
              => CarriesLastTwo(request', unwrap(arg), unwrap(arg'))]_vars

\* a send after a failed send, in a session that has a request body
C28_SentAfterFailure ==
    /\ pc = "awaiting"
    /\ sends = 2
    /\ self.provider = "OpenAI"
    /\ Len(self.messages) = 3
    /\ self.messages[2].role = "User"
    /\ self.messages[3].role = "User"
    /\ CarriesLastTwo(request, self.messages[2], self.messages[3])

\* ---------------------------------------------------------------------------
\* the editor handlers run concurrently over Backend.state: Arc<Mutex<State>>

\* the texts the concurrent handlers open and save
TaskTexts == {<<"a">>, <<"\n", "\n", "\n">>}

\* the range the concurrent codeAction/resolve handlers ask for
TaskRange ==
    [start |-> [line |-> 0, character |-> 0], end |-> [line |-> 1, character |-> 0]]

\* the position the concurrent completion handlers ask for
TaskPosition == [line |-> 3, character |-> 0]

\* the calls an editor may make at the same time
TaskCalls ==
    {[method |-> "did_open", params |-> prm] :
        prm \in [text_document : [uri : Uris, text : TaskTexts]]}
    \cup
    {[method |-> "did_save", params |-> prm] :
        prm \in [text_document : [uri : Uris],
                 text : {Some(t) : t \in TaskTexts}]}
    \cup
    {[method |-> "code_action_resolve", params |-> prm] :
        prm \in {CodeAction(a, u, TaskRange) : a \in {"Fix", "Test"}, u \in Uris}
                \cup {UnknownAction("file:///a.rs", TaskRange)}}
    \cup
    {[method |-> "completion", params |-> prm] :
        prm \in [text_document : [uri : {"file:///a.rs"}], position : {TaskPosition}]}

\* the server has run for a while: the store is empty or tracks a document
InitTasks ==
    /\ env = FullEnv
    /\ InitNoSession
    /\ InitOperation
    /\ sources \in {[u \in {} |-> <<>>],
                    [u \in {"file:///a.rs"} |-> <<"\n", "\n", "\n">>]}
    /\ server = "running"
    /\ call = NoCall
    /\ context = Unset
    /\ reply = Unset
    /\ tasks = [t \in TaskIds |-> NoTask]
    /\ lock = Unlocked

\* the server spawns the handler of a call; the handler logs and comes to the
\* statement that locks the state
handler_start(t, task_call) ==
    /\ tasks[t].pc = "idle"
    /\ tasks' = [tasks EXCEPT ![t] = [@ EXCEPT !.method = task_call.method,
                                               !.params = task_call.params,
                                               !.pc = "lock"]]
    /\ UNCHANGED <<session, env, input, output, sources, server, call, context,
                   reply, lock>>

\* a lock() that does not wait for the holder
Mutex_lock_no_wait(t) ==
    /\ tasks[t].pc = "lock"
    /\ lock' = [lock EXCEPT !.holder = Some(t), !.granted = @ + 1]
    /\ tasks' = [tasks EXCEPT ![t] = [@ EXCEPT !.pc = "locked",
                                               !.ticket = lock.granted + 1]]
    /\ UNCHANGED <<session, env, input, output, sources, server, call, context,
                   reply>>

\* self.state.lock().await: the lock is taken if it is free, else the handler
\* queues up behind the others (tokio's Mutex is first in, first out)
Mutex_lock(t) ==
    /\ tasks[t].pc = "lock"
    /\ IF lock.holder = None /\ lock.waiters = <<>>
       THEN /\ lock' = [lock EXCEPT !.holder = Some(t), !.granted = @ + 1]
            /\ tasks' = [tasks EXCEPT ![t] = [@ EXCEPT !.pc = "locked",
                                                       !.ticket = lock.granted + 1]]
       ELSE /\ lock' = [lock EXCEPT !.waiters = Append(@, t)]
            /\ tasks' = [tasks EXCEPT ![t] = [@ EXCEPT !.pc = "waiting"]]
    /\ UNCHANGED <<session, env, input, output, sources, server, call, context,
                   reply>>

\* a waiting lock().await returns: the lock was handed to this handler
Mutex_lock_ready(t) ==
    /\ tasks[t].pc = "waiting"
    /\ lock.holder = Some(t)
    /\ tasks' = [tasks EXCEPT ![t] = [@ EXCEPT !.pc = "locked",
                                               !.ticket = lock.granted]]
    /\ UNCHANGED <<session, env, input, output, sources, server, call, context,
                   reply, lock>>

\* the MutexGuard is dropped: the lock goes to the first handler waiting, or
\* is free
MutexGuard_drop(l) ==
    IF l.waiters = <<>>
    THEN [l EXCEPT !.holder = None]
    ELSE [l EXCEPT !.holder = Some(Head(l.waiters)),
                   !.waiters = Tail(l.waiters),
                   !.granted = @ + 1]

\* did_open: insert_source under the lock; the guard is a temporary of the
\* statement and is dropped at its end
insert_source_locked(t) ==
    /\ tasks[t].pc = "locked"
    /\ tasks[t].method = "did_open"
    /\ sources' = insert_source(sources, tasks[t].params.text_document)
    /\ lock' = MutexGuard_drop(lock)
    /\ tasks' = [tasks EXCEPT ![t] =
                    [@ EXCEPT !.pc = "done",
                              !.inserted = tasks[t].params.text_document.uri
                                               \notin DOMAIN sources]]
    /\ UNCHANGED <<session, env, input, output, server, call, context, reply>>

\* did_save: update_source under the lock, then the last log
update_source_locked(t) ==
    /\ tasks[t].pc = "locked"
    /\ tasks[t].method = "did_save"
    /\ sources' = update_source(sources, tasks[t].params.text_document,
                                tasks[t].params.text)
    /\ lock' = MutexGuard_drop(lock)
    /\ tasks' = [tasks EXCEPT ![t] = [@ EXCEPT !.pc = "done"]]
    /\ UNCHANGED <<session, env, input, output, server, call, context, reply>>

\* the range a handler extracts: the descriptor's, or the one completion
\* builds from the position
task_range(task) ==
    IF task.method = "code_action_resolve"
    THEN unwrap(task.params.data).range
    ELSE [start |-> [line |-> max(wrapping_sub(task.params.position.line, 3), 0),
                     character |-> 0],
          end   |-> task.params.position]

\* the document a handler extracts from
task_uri(task) ==
    IF task.method = "code_action_resolve"
    THEN unwrap(task.params.data).document_uri
    ELSE task.params.text_document.uri

\* a handler that keeps the guard in a local until it returns
get_source_range_locked_keep_guard(t) ==
    /\ tasks[t].pc = "locked"
    /\ tasks[t].method \in {"code_action_resolve", "completion"}
    /\ tasks' = [tasks EXCEPT ![t] =
                    [@ EXCEPT !.pc = "dispatch",
                              !.context = get_source_range(sources, task_uri(tasks[t]),
                                                           task_range(tasks[t]))]]
    /\ UNCHANGED <<session, env, input, output, sources, server, call, context,
                   reply, lock>>

\* on_code_action_resolve, completion: get_source_range under the lock; the
\* guard is a temporary of the let statement and is dropped at its end
get_source_range_locked(t) ==
    /\ tasks[t].pc = "locked"
    /\ tasks[t].method \in {"code_action_resolve", "completion"}
    /\ lock' = MutexGuard_drop(lock)
    /\ tasks' = [tasks EXCEPT ![t] =
                    [@ EXCEPT !.pc = "dispatch",
                              !.context = get_source_range(sources, task_uri(tasks[t]),
                                                           task_range(tasks[t]))]]
    /\ UNCHANGED <<session, env, input, output, sources, server, call, context,
                   reply>>

\* the handler logs and sends its operation: execute_operation(id, context)
\* or Complete.send(); it waits for the provider if the operation asks it
operation_dispatch(t) ==
    /\ tasks[t].pc = "dispatch"
    /\ LET task == tasks[t]
           next == IF task.method = "completion"
                   THEN IF task.context = None THEN "panicked" ELSE "in_flight"
                   ELSE LET id == unwrap(task.params.data).id
                        IN  IF execute_operation_panics(id)
                            THEN "panicked"
                            ELSE IF execute_operation_asks(id, task.context)
                                 THEN "in_flight"
                                 ELSE "done"
       IN  tasks' = [tasks EXCEPT ![t] = [@ EXCEPT !.pc = next]]
    /\ UNCHANGED <<session, env, input, output, sources, server, call, context,
                   reply, lock>>

\* the provider answers, or the request fails: the handler builds its answer
\* (completion unwraps the message it got)
operation_response(t, outcome) ==
    /\ tasks[t].pc = "in_flight"
    /\ LET task == tasks[t]
           resp == Complete_send_returned(task.context, outcome)
           next == IF task.method = "completion" /\ ~(resp[1] = "Ok" /\ resp[2] # None)
                   THEN "panicked"
                   ELSE "done"
       IN  tasks' = [tasks EXCEPT ![t] = [@ EXCEPT !.pc = next]]
    /\ UNCHANGED <<session, env, input, output, sources, server, call, context,
                   reply, lock>>

NextTasks ==
    \/ \E t \in TaskIds, task_call \in TaskCalls : handler_start(t, task_call)
    \/ \E t \in TaskIds : Mutex_lock(t)
    \/ \E t \in TaskIds : Mutex_lock_ready(t)
    \/ \E t \in TaskIds : insert_source_locked(t)
    \/ \E t \in TaskIds : update_source_locked(t)
    \/ \E t \in TaskIds : get_source_range_locked(t)
    \/ \E t \in TaskIds : operation_dispatch(t)
    \/ \E t \in TaskIds, outcome \in OperationOutcomes : operation_response(t, outcome)

SpecTasks == InitTasks /\ [][NextTasks]_vars

\* the steps of a handler up to the release of the lock
lock_section(t) ==
    \/ Mutex_lock(t)
    \/ Mutex_lock_ready(t)
    \/ insert_source_locked(t)
    \/ update_source_locked(t)
    \/ get_source_range_locked(t)

\* the runtime keeps polling a handler that can go on; nothing makes the
\* provider answer
SpecTasksFair ==
    /\ SpecTasks
    /\ \A t \in TaskIds : WF_vars(lock_section(t))

\* the handler holds the lock
Holds(t) == lock.holder = Some(t)

\* C27: in every interleaving of the concurrent handlers didOpen, didSave,
\* codeAction/resolve and completion, no handler holds the lock of the
\* document store while its request to the provider is in flight: the lock is
\* held only for the read or write of the map and is released before the
\* operation is sent
C27_NoLockOverNetwork ==
    \A t \in TaskIds :
        /\ tasks[t].pc \in {"dispatch", "in_flight", "done", "panicked"} => ~Holds(t)
        /\ Holds(t) => tasks[t].pc \in {"waiting", "locked"}

\* a handler takes the lock while the request of the other is in flight
C27_Witness ==
    /\ tasks["t1"].method = "code_action_resolve"
    /\ tasks["t1"].pc = "in_flight"
    /\ tasks["t2"].method = "did_save"
    /\ tasks["t2"].pc = "locked"
    /\ Holds("t2")

\* both handlers have run the same notification for the same document, and
\* first took the lock before second did
BothDone(first, second, method) ==
    /\ first # second
    /\ tasks[first].method = method
    /\ tasks[second].method = method
    /\ tasks[first].pc = "done"
    /\ tasks[second].pc = "done"
    /\ tasks[first].params.text_document.uri = tasks[second].params.text_document.uri
    /\ tasks[first].ticket < tasks[second].ticket

\* two didOpen for a document that was not tracked: the text stored is the
\* one of the handler that took the lock first, the other changed nothing
OpenFirstWins ==
    \A first, second \in TaskIds :
        /\ BothDone(first, second, "did_open")
        /\ tasks[first].params.text_document.text
               # tasks[second].params.text_document.text
        /\ tasks[first].inserted \/ tasks[second].inserted
        => /\ sources[tasks[first].params.text_document.uri]
                  = tasks[first].params.text_document.text
           /\ tasks[first].inserted
           /\ ~tasks[second].inserted

\* two didSave with a text: the text stored is the one of the handler that
\* took the lock last
SaveLastWins ==
    \A first, second \in TaskIds :
        /\ BothDone(first, second, "did_save")
        /\ tasks[first].params.text # None
        /\ tasks[second].params.text # None
        => sources[tasks[second].params.text_document.uri]
               = unwrap(tasks[second].params.text)

\* one handler at a time is in the statement that reads or writes the map
OneInTheStore ==
    \A t, u \in TaskIds :
        tasks[t].pc = "locked" /\ tasks[u].pc = "locked" => t = u

\* C29: the updates of the document store are atomic under concurrency: of
\* two concurrent didOpen for the same untracked uri with different texts,
\* whose check and insert run under the lock, the text stored afterwards is
\* the one of the handler that took the lock first and the other is a no-op;
\* of two concurrent didSave the text stored is the one of the handler that
\* took the lock last; and every handler releases the lock, so that a
\* handler waiting for it eventually has it
C29_AtomicStoreUpdates ==
    /\ [](OpenFirstWins /\ SaveLastWins /\ OneInTheStore)
    /\ \A t \in TaskIds : Holds(t) ~> ~Holds(t)
    /\ \A t \in TaskIds : (tasks[t].pc = "waiting") ~> (tasks[t].pc = "locked")

\* t2 opened the document first, t1 had to wait and changed nothing
C29_Witness ==
    /\ BothDone("t2", "t1", "did_open")
    /\ tasks["t2"].params.text_document.text # tasks["t1"].params.text_document.text
    /\ tasks["t2"].inserted
    /\ ~tasks["t1"].inserted
    /\ sources[tasks["t2"].params.text_document.uri]
           = tasks["t2"].params.text_document.text

\* a handler waits for the lock the other holds
C29_WitnessWaiting ==
    /\ tasks["t1"].method = "did_save"
    /\ tasks["t1"].pc = "waiting"
    /\ tasks["t2"].method = "did_save"
    /\ tasks["t2"].pc = "locked"
    /\ lock.waiters = <<"t1">>

\* ---------------------------------------------------------------------------
\* the range of a completion

\* the line of the cursor of the completion being handled
CursorLine == call.params.position.line

\* C31: for a completion at cursor line L the range extracted starts at line
\* max(L - 3, 0) and ends at the cursor: for every L, L = 0, 1, 2 included,
\* the start line is computed without underflow and is at most L
C31_StartLineNoUnderflow ==
    call.method = "completion"
        => /\ call.range # None
           /\ unwrap(call.range).start.line
                  = (IF CursorLine >= 3 THEN CursorLine - 3 ELSE 0)
           /\ unwrap(call.range).start.line <= CursorLine
           /\ unwrap(call.range).end = call.params.position

\* what holds of it: from line 3 on the range is the three lines before the
\* cursor line
C31_FromLineThree ==
    call.method = "completion" /\ CursorLine >= 3
        => /\ call.range # None
           /\ unwrap(call.range).start.line = CursorLine - 3
           /\ unwrap(call.range).end = call.params.position

\* below line 3 the handler never answers: the subtraction panics, or it
\* wraps to a start line past the cursor, nothing is extracted and the
\* unwrap of the context panics
C31_BelowLineThreeAborts ==
    call.method = "completion" /\ CursorLine < 3
        => /\ server = "panicked"
           /\ reply = Unset
           /\ \/ call.range = None
              \/ /\ unwrap(call.range).start.line > CursorLine
                 /\ context = None

\* the subtraction wrapped for a tracked document
C31_Wrapped ==
    /\ call.method = "completion"
    /\ CursorLine = 2
    /\ call.params.text_document.uri \in DOMAIN sources
    /\ call.range # None
    /\ unwrap(call.range).start.line = U32_MAX
    /\ context = None

====
